---- MODULE Spec2Model ----
(***************************************************************************)
(* The request engine of libs3 (src/src/request.c): the pool of reusable   *)
(* Request handles, request_perform / request_get / request_release /      *)
(* request_finish, and the read, write and header hooks the HTTP client    *)
(* calls while a transfer runs.                                            *)
(*                                                                         *)
(* A Request is named by a number in RequestIds (its address); NULL is the *)
(* null pointer.  The HTTP client (libcurl), the caller's callbacks, the   *)
(* error parser and the allocator are the environment: their results are   *)
(* drawn with \E from small sets.                                          *)
(***************************************************************************)
EXTENDS Integers, Sequences, FiniteSets, TLC

\* ------------------------------------------------------------------ sizes

\* #define REQUEST_STACK_SIZE 32
REQUEST_STACK_SIZE == 32

\* The null pointer (Request *request = 0).
NULL == 0

\* Threads that call request_perform concurrently.
NumThreads == 2

\* Requests registered on the multi-context at one time.
MaxInFlight == 1

\* Largest toS3CallbackTotalSize drawn for a perform.
MaxTotalSize == 2

\* Largest buffer (size * nmemb) the HTTP client offers to a hook.
MaxLen == 2

\* Requests that may be lost (allocated, yet in no pool slot, held by no
\* thread and on no context) in one behaviour.
MaxLeaks == 1

Threads == 1 .. NumThreads

\* Addresses the allocator can hand out.
MaxRequests == REQUEST_STACK_SIZE + NumThreads + MaxInFlight + MaxLeaks

RequestIds == 1 .. MaxRequests

\* What an out-of-bounds read of requestStackG may yield besides NULL: a
\* pointer to no Request.
WildPointer == 0 - 1

StackSlots == 0 .. (REQUEST_STACK_SIZE - 1)

\* ------------------------------------------------------------ status codes

\* Results of the preparation steps of request_perform that precede
\* request_get (S3_validate_bucket_name, compose_amz_headers,
\* compose_standard_headers, encode_key, compose_auth_header).
PrepFailures ==
    { "InvalidBucketNameTooLong", "MetaDataHeadersTooLong", "BadContentType",
      "UriTooLong", "HeadersTooLong" }

\* Statuses a caller's propertiesCallback / fromS3Callback may return.
CallbackStatuses == { "OK", "AbortedByCallback", "InternalError" }

\* Statuses error_parser_add may return.
ParserStatuses == { "OK", "XmlParseFailure" }

\* HTTP response codes curl_easy_getinfo may report.
ResponseCodes == { 0, 200, 404 }

\* CURLcode values curl_easy_perform may return.
CurlCodes ==
    { "CURLE_OK", "CURLE_OUT_OF_MEMORY", "CURLE_COULDNT_RESOLVE_PROXY",
      "CURLE_COULDNT_RESOLVE_HOST", "CURLE_COULDNT_CONNECT",
      "CURLE_WRITE_ERROR", "CURLE_OPERATION_TIMEDOUT", "CURLE_PARTIAL_FILE",
      "CURLE_PEER_FAILED_VERIFICATION", "CURLE_ABORTED_BY_CALLBACK",
      "CURLE_RECV_ERROR" }

\* CURLMcode values curl_multi_add_handle may return.
MultiCodes == { "CURLM_OK", "CURLM_OUT_OF_MEMORY", "CURLM_BAD_EASY_HANDLE" }

Is2xx(code) == (code >= 200) /\ (code <= 299)

\* ------------------------------------------------------------------ state

VARIABLES
    requestStackG,       \* static Request *requestStackG[REQUEST_STACK_SIZE]
    requestStackCountG,  \* static int requestStackCountG
    stackIndex,          \* the indices of requestStackG the last step read or wrote
    verifyPeer,          \* static int verifyPeer
    req,                 \* the fields of every allocated Request
    context,             \* the S3RequestContext: requests, and its multi handle
    pc,                  \* where each thread is inside request_perform
    request,             \* request_perform's local variable, per thread
    params,              \* the RequestParams of each thread's current call
    obs,                 \* the callbacks made for each Request since it was acquired
    fin,                 \* the perform that the last step ended, if it ended one
    serial,              \* the serial performs counted, and the Request the last released
    pure,                \* the last application of a function to drawn arguments
    mem                  \* the lists, error parser and handle of every Request

vars ==
    << requestStackG, requestStackCountG, stackIndex, verifyPeer, req,
       context, pc, request, params, obs, fin, serial, pure, mem >>

\* The Requests that are allocated and not freed.
alive == DOMAIN req

\* ---------------------------------------------------------------- Request

\* The fields of a Request (request.h) that the engine reads and writes.
\* errorParsed stands for request->errorParser holding a parsed S3 error;
\* request->responseHeadersHandler belongs to the response headers handler
\* and has no field here; curlAborted records which hook ("read", "write") has told
\* the HTTP client to abort the transfer of request->curl ("no": none).
BlankRequest ==
    [ status |-> "OK",
      httpResponseCode |-> 0,
      propertiesCallbackMade |-> FALSE,
      toS3CallbackBytesRemaining |-> 0,
      propertiesCallback |-> FALSE,
      toS3Callback |-> FALSE,
      fromS3Callback |-> FALSE,
      prev |-> NULL,
      next |-> NULL,
      errorParsed |-> FALSE,
      curlAborted |-> "no" ]

\* The arguments of request_perform, as far as the engine's control flow
\* reads them: which callbacks the RequestParams hold, the total size, and
\* whether a S3RequestContext is passed (useContext) with which
\* verifyPeerSet and verifyPeer at the time of the call.
ParamsOf(callbackChoices, sizes, contextChoices) ==
    { p \in [ propertiesCallback : callbackChoices,
              toS3Callback : callbackChoices,
              fromS3Callback : callbackChoices,
              toS3CallbackTotalSize : sizes,
              useContext : contextChoices,
              verifyPeerSet : { 0, 1 },
              verifyPeer : { 0, 1 } ] :
        (~p.useContext) => (p.verifyPeerSet = 0) /\ (p.verifyPeer = 0) }

AllParams == ParamsOf(BOOLEAN, 0 .. MaxTotalSize, BOOLEAN)

NoParams ==
    [ propertiesCallback |-> FALSE, toS3Callback |-> FALSE,
      fromS3Callback |-> FALSE, toS3CallbackTotalSize |-> 0,
      useContext |-> FALSE, verifyPeerSet |-> 0, verifyPeer |-> 0 ]

\* ------------------------------------------------- callbacks, as events

\* (*(request->propertiesCallback))(...), made with the given response code.
EvProperties(code) == [ cb |-> "properties", code |-> code ]

\* (*(request->toS3Callback))(len, ...), made while `remaining` bytes were
\* still to send; ret is what the callback returned.
EvToS3(len, remaining, ret) ==
    [ cb |-> "toS3", maxLen |-> len, remaining |-> remaining, ret |-> ret ]

\* (*(request->fromS3Callback))(len, ...); headersDone is
\* propertiesCallbackMade at that moment, ret what the callback returned.
EvFromS3(headersDone, ret) ==
    [ cb |-> "fromS3", headersDone |-> headersDone, ret |-> ret ]

\* (*completeCallback)(status, details, callbackData).
EvComplete(status, details) ==
    [ cb |-> "complete", status |-> status, details |-> details ]

\* ----------------------------------------------------- request_headers_done

\* request_headers_done without its first test: the headers are processed
\* again on every call.
request_headers_done_again(R, infoOK, code, pret) ==
    IF ~infoOK
    THEN [ r |-> [ R EXCEPT !.propertiesCallbackMade = TRUE,
                            !.httpResponseCode = 0,
                            !.status = "InternalError" ],
           ev |-> << >> ]
    ELSE IF R.propertiesCallback /\ (code >= 200) /\ (code <= 299)
    THEN [ r |-> [ R EXCEPT !.propertiesCallbackMade = TRUE,
                            !.httpResponseCode = code,
                            !.status = pret ],
           ev |-> << EvProperties(code) >> ]
    ELSE [ r |-> [ R EXCEPT !.propertiesCallbackMade = TRUE,
                            !.httpResponseCode = code ],
           ev |-> << >> ]

\* request_headers_done(request).  infoOK and code are the outcome of
\* curl_easy_getinfo(CURLINFO_RESPONSE_CODE); pret is what propertiesCallback
\* returns if it is called.  Yields the Request and the callbacks made.
request_headers_done(R, infoOK, code, pret) ==
    IF R.propertiesCallbackMade
    THEN [ r |-> R, ev |-> << >> ]
    ELSE IF ~infoOK
    THEN [ r |-> [ R EXCEPT !.propertiesCallbackMade = TRUE,
                            !.httpResponseCode = 0,
                            !.status = "InternalError" ],
           ev |-> << >> ]
    ELSE IF R.propertiesCallback /\ (code >= 200) /\ (code <= 299)
    THEN [ r |-> [ R EXCEPT !.propertiesCallbackMade = TRUE,
                            !.httpResponseCode = code,
                            !.status = pret ],
           ev |-> << EvProperties(code) >> ]
    ELSE [ r |-> [ R EXCEPT !.propertiesCallbackMade = TRUE,
                            !.httpResponseCode = code ],
           ev |-> << >> ]

\* What curl_easy_getinfo and propertiesCallback may answer inside
\* request_headers_done(R): nothing is asked once the headers are done.
InfoEnv(R) ==
    IF R.propertiesCallbackMade
    THEN { [ infoOK |-> TRUE, code |-> R.httpResponseCode, pret |-> "OK" ] }
    ELSE { e \in [ infoOK : BOOLEAN, code : ResponseCodes, pret : CallbackStatuses ] :
             /\ (~e.infoOK) => (e.code = 0)
             /\ (~(e.infoOK /\ R.propertiesCallback)) => (e.pret = "OK") }

\* ------------------------------------------------------------ the hooks

\* curl_header_func: hands the bytes to response_headers_handler_add and
\* touches no other field of the Request.
curl_header_func(R) == R

\* The len handed to toS3Callback: the buffer size capped at the bytes
\* remaining.
ReadLen(len, remaining) == IF len > remaining THEN remaining ELSE len

\* The byte count taken without the cap at the bytes remaining.
ReadTakenAll(ret, remaining) == ret

\* The byte count taken from a toS3Callback return of ret >= 0.
ReadTaken(ret, remaining) == IF ret > remaining THEN remaining ELSE ret

\* A read hook that marks the headers done before anything else.
curl_read_func_headers(R, len, ret) ==
    LET D == [ R EXCEPT !.propertiesCallbackMade = TRUE ]
    IN  IF D.status # "OK"
        THEN [ r |-> D, ev |-> << >>, abort |-> TRUE, n |-> 0 ]
        ELSE IF (~D.toS3Callback) \/ (D.toS3CallbackBytesRemaining = 0)
        THEN [ r |-> D, ev |-> << >>, abort |-> FALSE, n |-> 0 ]
        ELSE [ r |-> D, ev |-> << EvToS3(len, D.toS3CallbackBytesRemaining, ret) >>,
               abort |-> ret < 0, n |-> 0 ]

\* curl_read_func(ptr, size, nmemb, request) with len = size * nmemb; ret is
\* what toS3Callback returns if it is called.  abort: the hook returned
\* CURL_READFUNC_ABORT; n: the byte count it returned otherwise.
curl_read_func(R, len, ret) ==
    IF R.status # "OK"
    THEN [ r |-> R, ev |-> << >>, abort |-> TRUE, n |-> 0 ]
    ELSE IF (~R.toS3Callback) \/ (R.toS3CallbackBytesRemaining = 0)
    THEN [ r |-> R, ev |-> << >>, abort |-> FALSE, n |-> 0 ]
    ELSE LET l == ReadLen(len, R.toS3CallbackBytesRemaining)
             e == << EvToS3(l, R.toS3CallbackBytesRemaining, ret) >>
         IN  IF ret < 0
             THEN [ r |-> [ R EXCEPT !.status = "AbortedByCallback" ],
                    ev |-> e, abort |-> TRUE, n |-> 0 ]
             ELSE LET k == ReadTaken(ret, R.toS3CallbackBytesRemaining)
                  IN  [ r |-> [ R EXCEPT !.toS3CallbackBytesRemaining = @ - k ],
                        ev |-> e, abort |-> FALSE, n |-> k ]

\* error_parser_add(&request->errorParser, ptr, len): the parser is fed the
\* bytes; est is the status it returns and parsed whether it now holds an
\* S3 error.
error_parser_add(R, est, parsed) ==
    [ R EXCEPT !.status = est, !.errorParsed = @ \/ parsed ]

\* curl_write_func returning len whatever the status is.
curl_write_func_full(R, len, infoOK, code, pret, fret, est, parsed) ==
    LET H == request_headers_done(R, infoOK, code, pret)
        R1 == H.r
        W == IF R1.status # "OK"
             THEN [ r |-> R1, ev |-> << >> ]
             ELSE IF (R1.httpResponseCode < 200) \/ (R1.httpResponseCode > 299)
             THEN [ r |-> error_parser_add(R1, est, parsed), ev |-> << >> ]
             ELSE IF R1.fromS3Callback
             THEN [ r |-> [ R1 EXCEPT !.status = fret ],
                    ev |-> << EvFromS3(R1.propertiesCallbackMade, fret) >> ]
             ELSE [ r |-> [ R1 EXCEPT !.status = "InternalError" ],
                    ev |-> << >> ]
    IN  [ r |-> W.r, ev |-> H.ev \o W.ev, n |-> len ]

\* A write hook that hands the bytes to fromS3Callback, when there is one,
\* whatever the response code.
curl_write_func_any_code(R, len, infoOK, code, pret, fret, est, parsed) ==
    LET H == request_headers_done(R, infoOK, code, pret)
        R1 == H.r
        W == IF R1.status # "OK"
             THEN [ r |-> R1, ev |-> << >> ]
             ELSE IF R1.fromS3Callback
             THEN [ r |-> [ R1 EXCEPT !.status = fret ],
                    ev |-> << EvFromS3(R1.propertiesCallbackMade, fret) >> ]
             ELSE IF (R1.httpResponseCode < 200) \/ (R1.httpResponseCode > 299)
             THEN [ r |-> error_parser_add(R1, est, parsed), ev |-> << >> ]
             ELSE [ r |-> [ R1 EXCEPT !.status = "InternalError" ],
                    ev |-> << >> ]
    IN  [ r |-> W.r, ev |-> H.ev \o W.ev,
          n |-> IF (R1.status = "OK") /\ (W.r.status = "OK") THEN len ELSE 0 ]

\* curl_write_func(ptr, size, nmemb, request) with len = size * nmemb.
\* infoOK, code, pret as for request_headers_done; fret is what
\* fromS3Callback returns, est and parsed what the error parser does.
\* n is the byte count the hook returns to the HTTP client.
curl_write_func(R, len, infoOK, code, pret, fret, est, parsed) ==
    LET H == request_headers_done(R, infoOK, code, pret)
        R1 == H.r
        W == IF R1.status # "OK"
             THEN [ r |-> R1, ev |-> << >> ]
             ELSE IF (R1.httpResponseCode < 200) \/ (R1.httpResponseCode > 299)
             THEN [ r |-> error_parser_add(R1, est, parsed), ev |-> << >> ]
             ELSE IF R1.fromS3Callback
             THEN [ r |-> [ R1 EXCEPT !.status = fret ],
                    ev |-> << EvFromS3(R1.propertiesCallbackMade, fret) >> ]
             ELSE [ r |-> [ R1 EXCEPT !.status = "InternalError" ],
                    ev |-> << >> ]
    IN  [ r |-> W.r, ev |-> H.ev \o W.ev,
          n |-> IF (R1.status = "OK") /\ (W.r.status = "OK") THEN len ELSE 0 ]

\* ------------------------------------------------------- request_finish

\* The switch without its case 100.
HttpCodeStatusNo100(code, cur) ==
    CASE code = 0 -> "ConnectionFailed"
      [] code = 301 -> "ErrorPermanentRedirect"
      [] code = 307 -> "HttpErrorMovedTemporarily"
      [] code = 400 -> "HttpErrorBadRequest"
      [] code = 403 -> "HttpErrorForbidden"
      [] code = 404 -> "HttpErrorNotFound"
      [] code = 405 -> "ErrorMethodNotAllowed"
      [] code = 409 -> "HttpErrorConflict"
      [] code = 411 -> "ErrorMissingContentLength"
      [] code = 412 -> "ErrorPreconditionFailed"
      [] code = 416 -> "ErrorInvalidRange"
      [] code = 500 -> "ErrorInternalError"
      [] code = 501 -> "ErrorNotImplemented"
      [] code = 503 -> "ErrorSlowDown"
      [] OTHER -> "HttpErrorUnknown"

\* The switch of request_finish over request->httpResponseCode, for a code
\* outside 200..299 (cur is the status before the switch).
HttpCodeStatus(code, cur) ==
    CASE code = 0 -> "ConnectionFailed"
      [] code = 100 -> cur
      [] code = 301 -> "ErrorPermanentRedirect"
      [] code = 307 -> "HttpErrorMovedTemporarily"
      [] code = 400 -> "HttpErrorBadRequest"
      [] code = 403 -> "HttpErrorForbidden"
      [] code = 404 -> "HttpErrorNotFound"
      [] code = 405 -> "ErrorMethodNotAllowed"
      [] code = 409 -> "HttpErrorConflict"
      [] code = 411 -> "ErrorMissingContentLength"
      [] code = 412 -> "ErrorPreconditionFailed"
      [] code = 416 -> "ErrorInvalidRange"
      [] code = 500 -> "ErrorInternalError"
      [] code = 501 -> "ErrorNotImplemented"
      [] code = 503 -> "ErrorSlowDown"
      [] OTHER -> "HttpErrorUnknown"

\* error_parser_convert_status(&request->errorParser, &request->status):
\* a parsed S3 error becomes the status.
error_parser_convert_status(R) ==
    IF R.errorParsed THEN [ R EXCEPT !.status = "ErrorParsedFromXml" ] ELSE R

\* request_finish without its completeCallback.
request_finish_silent(R, infoOK, code, pret) ==
    LET H == request_headers_done(R, infoOK, code, pret)
    IN  [ r |-> H.r, ev |-> H.ev ]

\* request_finish(request) up to and including the completeCallback; the
\* request_release that ends it is RequestRelease below.
request_finish(R, infoOK, code, pret) ==
    LET H == request_headers_done(R, infoOK, code, pret)
        R1 == H.r
        R2 == IF R1.status = "OK" THEN error_parser_convert_status(R1) ELSE R1
        R3 == IF (R1.status = "OK") /\ (R2.status = "OK")
                 /\ ((R2.httpResponseCode < 200) \/ (R2.httpResponseCode > 299))
              THEN [ R2 EXCEPT !.status =
                         HttpCodeStatus(R2.httpResponseCode, R2.status) ]
              ELSE R2
    IN  [ r |-> R3,
          ev |-> H.ev \o << EvComplete(R3.status, "errorDetails") >> ]

\* request_curl_code_to_status(code).
request_curl_code_to_status(code) ==
    CASE code = "CURLE_OUT_OF_MEMORY" -> "OutOfMemory"
      [] code \in { "CURLE_COULDNT_RESOLVE_PROXY", "CURLE_COULDNT_RESOLVE_HOST" }
            -> "NameLookupError"
      [] code = "CURLE_COULDNT_CONNECT" -> "FailedToConnect"
      [] code \in { "CURLE_WRITE_ERROR", "CURLE_OPERATION_TIMEDOUT" }
            -> "ConnectionFailed"
      [] code = "CURLE_PARTIAL_FILE" -> "OK"
      [] code = "CURLE_PEER_FAILED_VERIFICATION" -> "ServerFailedVerification"
      [] OTHER -> "InternalError"

\* The mapped code stored whatever the status is.
EasyStatusAlways(R, code) ==
    IF code # "CURLE_OK"
    THEN [ R EXCEPT !.status = request_curl_code_to_status(code) ]
    ELSE R

\* request_perform after curl_easy_perform returned code.
EasyStatus(R, code) ==
    IF (code # "CURLE_OK") /\ (R.status = "OK")
    THEN [ R EXCEPT !.status = request_curl_code_to_status(code) ]
    ELSE R

\* return_status handing over error details.
return_status_details(status) == << EvComplete(status, "errorDetails") >>

\* return_status(status) of request_perform: the completeCallback with
\* null error details.
return_status(status) == << EvComplete(status, "null") >>

\* ------------------------------------------------------------- the pool

\* A pop that reads the top slot and leaves the count as it is.
StackPopKeep(count) ==
    IF count # 0
    THEN [ count |-> count, popped |-> TRUE, index |-> count - 1 ]
    ELSE [ count |-> count, popped |-> FALSE, index |-> 0 ]

\* request_get, under requestStackMutexG: if (requestStackCountG) request =
\* requestStackG[--requestStackCountG].  index is the slot read (popped
\* says whether one was read).
StackPop(count) ==
    IF count # 0
    THEN [ count |-> count - 1, popped |-> TRUE, index |-> count - 1 ]
    ELSE [ count |-> count, popped |-> FALSE, index |-> 0 ]

\* A release that destroys the Request whatever the count is.
request_release_destroy(stack, count, r) ==
    [ stack |-> stack, count |-> count, destroy |-> TRUE, stored |-> FALSE,
      index |-> 0 ]

\* request_release(request), under requestStackMutexG: destroy the Request
\* when the stack is full, else requestStackG[requestStackCountG++] =
\* request.  A store outside the array leaves the array as it is.
request_release(stack, count, r) ==
    IF count = REQUEST_STACK_SIZE
    THEN [ stack |-> stack, count |-> count, destroy |-> TRUE, stored |-> FALSE,
           index |-> 0 ]
    ELSE [ stack |-> IF count \in StackSlots
                     THEN [ stack EXCEPT ![count] = r ]
                     ELSE stack,
           count |-> count + 1, destroy |-> FALSE, stored |-> TRUE,
           index |-> count ]

\* The Requests in the pool: requestStackG[0 .. requestStackCountG - 1].
PoolSlots == { i \in StackSlots : i < requestStackCountG }

Pooled == { requestStackG[i] : i \in PoolSlots }

\* malloc(sizeof(Request)): an address that is not in use (the lowest one,
\* addresses being interchangeable); NULL when none is left.
Malloc ==
    IF alive = RequestIds
    THEN NULL
    ELSE CHOOSE r \in RequestIds \ alive :
             \A q \in RequestIds \ alive : r <= q

\* ------------------------------------------------------ the multi-context

\* The Request linked in front of the head and made the head.
LinkRequestAsHead(R, head, r) ==
    IF head # NULL
    THEN LET tail == R[head].prev
             A == [ R EXCEPT ![r].prev = tail, ![r].next = head ]
             B == [ A EXCEPT ![tail].next = r ]
         IN  [ req |-> [ B EXCEPT ![head].prev = r ], head |-> r ]
    ELSE [ req |-> [ R EXCEPT ![r].next = r, ![r].prev = r ], head |-> r ]

\* request_perform after curl_multi_add_handle returned CURLM_OK: link
\* Request r at the tail of the circular list context->requests.
LinkRequest(R, head, r) ==
    IF head # NULL
    THEN LET tail == R[head].prev
             A == [ R EXCEPT ![r].prev = tail, ![r].next = head ]
             B == [ A EXCEPT ![tail].next = r ]
         IN  [ req |-> [ B EXCEPT ![head].prev = r ], head |-> head ]
    ELSE [ req |-> [ R EXCEPT ![r].next = r, ![r].prev = r ], head |-> r ]

\* The event loop taking Request r off context->requests before it calls
\* request_finish.
UnlinkRequest(R, head, r) ==
    IF R[r].next = r
    THEN [ req |-> R, head |-> NULL ]
    ELSE LET p == R[r].prev
             n == R[r].next
             A == [ R EXCEPT ![p].next = n ]
         IN  [ req |-> [ A EXCEPT ![n].prev = p ],
               head |-> IF head = r THEN n ELSE head ]

\* request_perform after curl_multi_add_handle returned a failure code.
MultiFailStatus(R, code) ==
    IF R.status = "OK"
    THEN [ R EXCEPT !.status = IF code = "CURLM_OUT_OF_MEMORY"
                                  THEN "OutOfMemory"
                                  ELSE "InternalError" ]
    ELSE R

\* request_perform: verifyPeerRequest, the flag compared with verifyPeer to
\* decide whether CURLOPT_SSL_VERIFYPEER is set again from the context.
VerifyPeerRequest(p, global) ==
    IF p.useContext /\ (p.verifyPeerSet # 0) THEN p.verifyPeerSet ELSE global

\* The value of CURLOPT_SSL_VERIFYPEER on the handle when request_perform
\* starts the transfer: setup_curl sets it to the global verifyPeer, and
\* request_perform sets it to context->verifyPeer when verifyPeerRequest
\* differs from the global verifyPeer.
SslVerifyPeer(p, global) ==
    IF VerifyPeerRequest(p, global) # global THEN p.verifyPeer ELSE global

\* -------------------------------------------------------------- observation

\* What has been seen of the callbacks of one perform: how often
\* completeCallback and propertiesCallback were made (counted up to 2),
\* whether toS3Callback and fromS3Callback were made (0 or 1), the status
\* and details given to completeCallback, and whether an ordering rule was
\* broken.
\*   late            a callback was made after completeCallback
\*   propsNon2xx     propertiesCallback was made with a code outside 200..299
\*   fromEarly       fromS3Callback was made before the headers were done
\*   propsAfterFrom  propertiesCallback was made after a fromS3Callback
\*   toAborted       toS3Callback returned a negative value
\*   fromReturned    the last non-OK status fromS3Callback returned
\*   badMaxLen       toS3Callback was offered more than the bytes remaining
\*   toAtZero        toS3Callback was made with no bytes remaining
\*   sent, total     bytes the read hook returned; toS3CallbackTotalSize
\*   refused         the byte count the write hook returned from the call in
\*                   which fromS3Callback returned a status other than OK
NoObs ==
    [ complete |-> 0, status |-> "none", details |-> "none",
      properties |-> 0, fromS3 |-> 0, toS3 |-> 0,
      late |-> FALSE, propsNon2xx |-> FALSE, fromEarly |-> FALSE,
      propsAfterFrom |-> FALSE, toAborted |-> FALSE, fromReturned |-> "OK",
      badMaxLen |-> FALSE, toAtZero |-> FALSE, sent |-> 0, total |-> 0,
      refused |-> 0 ]

Bump(n) == IF n < 2 THEN n + 1 ELSE n

Seen(n) == IF n < 1 THEN n + 1 ELSE n

ObserveOne(o, e) ==
    LET o1 == IF (o.complete > 0) /\ (e.cb # "complete")
              THEN [ o EXCEPT !.late = TRUE ]
              ELSE o
    IN  CASE e.cb = "complete" ->
               [ o1 EXCEPT !.complete = Bump(@), !.status = e.status,
                           !.details = e.details ]
          [] e.cb = "properties" ->
               [ o1 EXCEPT !.properties = Bump(@),
                           !.propsNon2xx = @ \/ ~Is2xx(e.code),
                           !.propsAfterFrom = @ \/ (o.fromS3 > 0) ]
          [] e.cb = "fromS3" ->
               [ o1 EXCEPT !.fromS3 = Seen(@),
                           !.fromEarly = @ \/ ~e.headersDone,
                           !.fromReturned = IF e.ret # "OK" THEN e.ret ELSE @ ]
          [] e.cb = "toS3" ->
               [ o1 EXCEPT !.toS3 = Seen(@),
                           !.toAborted = @ \/ (e.ret < 0),
                           !.badMaxLen = @ \/ (e.maxLen > e.remaining),
                           !.toAtZero = @ \/ (e.remaining = 0) ]

RECURSIVE Observe(_, _)
Observe(o, events) ==
    IF events = << >>
    THEN o
    ELSE Observe(ObserveOne(o, Head(events)), Tail(events))

\* What a request_perform call did before it returned:
\*   kind        "prepare": a step before request_get failed; "get":
\*               request_get failed; "setopt": the SSL_VERIFYPEER override
\*               failed; "addfail": curl_multi_add_handle failed;
\*               "registered": the Request went onto the multi-context;
\*               "easy": curl_easy_perform ran and request_finish followed
\*   failure     the status of the failing step ("OK" when none failed)
\*   started     curl_easy_perform or curl_multi_add_handle was called
\*   seen        the callbacks made during the call
NoCall ==
    [ kind |-> "none", failure |-> "OK", started |-> FALSE, seen |-> NoObs ]

CallOf(kind, failure, started, events) ==
    [ kind |-> kind, failure |-> failure, started |-> started,
      seen |-> Observe(NoObs, events) ]


\* ----------------------------------------------------------------- Init

\* The count of the performs of a serial run (kept by the serial runs
\* alone) and the Request the last of them handed to request_release.
NoSerial == [ performs |-> 0, released |-> NULL ]

\* A function of the engine applied to arguments drawn from a set: its
\* name, the arguments and the result.  Nothing has been applied yet.
NoPure == [ fn |-> "none" ]

\* The memory runs keep, for every Request, what its header list pointer,
\* its Connect-To list pointer, its error parser and its HTTP handle are
\* like.  Nothing is kept outside those runs.
NoMem == [ run |-> "none" ]

\* The thread that owns the S3RequestContext: a context and the event loop
\* that drives it are used by one thread (the first one).
ContextThread == CHOOSE t \in Threads : \A u \in Threads : t <= u

\* Function F with F[r] = v, r added to its domain if need be; and F
\* without r.
Put(F, r, v) == [ x \in (DOMAIN F) \cup { r } |-> IF x = r THEN v ELSE F[x] ]

Drop(F, r) == [ x \in (DOMAIN F) \ { r } |-> F[x] ]

\* Whether Request r is inside a transfer: inside curl_easy_perform, or
\* added to the context's multi handle.
InEasy(r) == \E t \in Threads : (pc[t] = "easy") /\ (request[t] = r)

InMulti(r) == r \in context.curlm

InFlight(r) == InEasy(r) \/ InMulti(r)

\* The Requests a thread holds inside request_perform.
Held ==
    { request[t] : t \in { u \in Threads : pc[u] \in { "get", "easy" } } }
        \ { NULL, WildPointer }

\* Alive Requests that are in no pool slot, held by no thread and on no
\* multi handle.
Lost == (alive \ Pooled) \ (Held \cup context.curlm)

\* The state after request_api_initialize: an empty pool, no Request
\* allocated, every thread outside request_perform, a context with no
\* request on it.
Init ==
    /\ requestStackG = [ i \in StackSlots |-> NULL ]
    /\ requestStackCountG = 0
    /\ stackIndex = { }
    /\ verifyPeer \in { 0, 1 }
    /\ req = << >>
    /\ context = [ requests |-> NULL, curlm |-> { } ]
    /\ pc = [ t \in Threads |-> "idle" ]
    /\ request = [ t \in Threads |-> NULL ]
    /\ params = [ t \in Threads |-> NoParams ]
    /\ obs = << >>
    /\ fin = NoCall
    /\ serial = NoSerial
    /\ pure = NoPure
    /\ mem = NoMem

\* ------------------------------------------------------- request_perform

\* request_perform fails in a step before request_get and returns.
PerformPrepFail(t) ==
    /\ pc[t] = "idle"
    /\ \E st \in PrepFailures :
           fin' = CallOf("prepare", st, FALSE, return_status(st))
    /\ stackIndex' = { }
    /\ UNCHANGED << requestStackG, requestStackCountG, verifyPeer,
                    req, context, pc, request, params, obs >>
    /\ UNCHANGED << serial, pure, mem >>

\* request_perform(p, context?) reaches request_get and takes the top of
\* the stack under the mutex.  A read outside the array yields NULL or a
\* pointer to no Request.  The slot popped is above the count from now on:
\* it is written before it is read again, so the model clears it.
GetPop(t, p) ==
    /\ pc[t] = "idle"
    /\ p.useContext => (t = ContextThread)
    /\ LET pop == StackPop(requestStackCountG)
       IN  /\ requestStackCountG' = pop.count
           /\ stackIndex' = IF pop.popped THEN { pop.index } ELSE { }
           /\ requestStackG' =
                  IF pop.popped /\ (pop.index \in StackSlots)
                  THEN [ requestStackG EXCEPT ![pop.index] = NULL ]
                  ELSE requestStackG
           /\ \E got \in IF ~pop.popped THEN { NULL }
                         ELSE IF pop.index \in StackSlots
                         THEN { requestStackG[pop.index] }
                         ELSE { NULL, WildPointer } :
                  request' = [ request EXCEPT ![t] = got ]
    /\ pc' = [ pc EXCEPT ![t] = "get" ]
    /\ params' = [ params EXCEPT ![t] = p ]
    /\ fin' = NoCall
    /\ UNCHANGED << verifyPeer, req, context, obs >>

RequestGetPop(t, p) ==
    /\ GetPop(t, p)
    /\ UNCHANGED << serial, pure, mem >>

\* The Request request_get works on: the one popped, else a new one.
Target(t) == IF request[t] # NULL THEN request[t] ELSE Malloc

\* The fields request_get starts from: those of the popped Request, or
\* fresh memory.
Before(t) == IF request[t] # NULL THEN req[request[t]] ELSE BlankRequest

\* request_get's initialisation of the Request for params p (the popped
\* Request went through request_deinitialize first).
InitRequest(R, p) ==
    [ R EXCEPT !.prev = NULL, !.next = NULL, !.status = "OK",
               !.propertiesCallback = p.propertiesCallback,
               !.toS3Callback = p.toS3Callback,
               !.toS3CallbackBytesRemaining = p.toS3CallbackTotalSize,
               !.fromS3Callback = p.fromS3Callback,
               !.propertiesCallbackMade = FALSE,
               !.errorParsed = FALSE,
               !.curlAborted = "no" ]

\* The observation of a perform that has just acquired its Request.
StartObs(p) == [ NoObs EXCEPT !.total = p.toS3CallbackTotalSize ]

\* A Request as the pool keeps it.  The fields request_get assigns before
\* anything reads them (status, the callbacks, the byte counter, prev,
\* next, propertiesCallbackMade, httpResponseCode, the response headers
\* handler) are not kept: their values in a pooled Request are never read.
Parked(R) == [ BlankRequest EXCEPT !.errorParsed = R.errorParsed ]

\* A Request that no pointer leads to any more: it stays allocated and
\* none of its fields is read again, so none is kept.
Unreferenced(R) == BlankRequest

\* request_release(r) applied to the state, the Requests' fields being R
\* and the observations O.
Release(r, R, O) ==
    LET rel == request_release(requestStackG, requestStackCountG, r)
    IN  /\ requestStackG' = rel.stack
        /\ requestStackCountG' = rel.count
        /\ stackIndex' = IF rel.stored THEN { rel.index } ELSE { }
        /\ req' = IF rel.destroy THEN Drop(R, r) ELSE Put(R, r, Parked(R[r]))
        /\ obs' = IF rel.destroy THEN Drop(O, r) ELSE Put(O, r, NoObs)

\* request_deinitialize on a pointer to no Request: the thread is lost.
GetCrash(t) ==
    /\ pc[t] = "get"
    /\ request[t] = WildPointer
    /\ pc' = [ pc EXCEPT ![t] = "crashed" ]
    /\ fin' = NoCall
    /\ stackIndex' = { }
    /\ UNCHANGED << requestStackG, requestStackCountG, verifyPeer,
                    req, context, request, params, obs >>
    /\ UNCHANGED << serial, pure, mem >>

\* request_get fails before it has a Request: malloc or curl_easy_init.
GetAllocFail(t) ==
    /\ pc[t] = "get"
    /\ request[t] = NULL
    /\ \E st \in IF Malloc = NULL THEN { "OutOfMemory" }
                 ELSE { "OutOfMemory", "FailedToInitializeRequest" } :
           fin' = CallOf("get", st, FALSE, return_status(st))
    /\ pc' = [ pc EXCEPT ![t] = "idle" ]
    /\ params' = [ params EXCEPT ![t] = NoParams ]
    /\ stackIndex' = { }
    /\ UNCHANGED << requestStackG, requestStackCountG, verifyPeer,
                    req, context, request, obs >>
    /\ UNCHANGED << serial, pure, mem >>

\* request_get fails in compose_uri or setup_curl: curl_easy_cleanup and
\* free of the Request, then return_status.
GetSetupFail(t) ==
    /\ pc[t] = "get"
    /\ request[t] # WildPointer
    /\ Target(t) # NULL
    /\ \E st \in { "UriTooLong", "FailedToInitializeRequest" } :
           fin' = CallOf("get", st, FALSE, return_status(st))
    /\ req' = Drop(req, Target(t))
    /\ obs' = Drop(obs, Target(t))
    /\ pc' = [ pc EXCEPT ![t] = "idle" ]
    /\ request' = [ request EXCEPT ![t] = NULL ]
    /\ params' = [ params EXCEPT ![t] = NoParams ]
    /\ stackIndex' = { }
    /\ UNCHANGED << requestStackG, requestStackCountG, verifyPeer,
                    context >>
    /\ UNCHANGED << serial, pure, mem >>

\* Whether request_perform sets CURLOPT_SSL_VERIFYPEER again.
Overrides(t) ==
    VerifyPeerRequest(params[t], verifyPeer) # verifyPeer

\* request_get succeeds; the override of CURLOPT_SSL_VERIFYPEER fails and
\* request_perform returns through return_status.
PerformSetoptFail(t) ==
    /\ pc[t] = "get"
    /\ request[t] # WildPointer
    /\ Target(t) # NULL
    /\ Overrides(t)
    /\ Cardinality(Lost) < MaxLeaks
    /\ LET r == Target(t)
           ev == return_status("FailedToInitializeRequest")
       IN  /\ req' = Put(req, r, Unreferenced(InitRequest(Before(t), params[t])))
           /\ obs' = Put(obs, r, NoObs)
           /\ fin' = [ kind |-> "setopt", failure |-> "FailedToInitializeRequest",
                       started |-> FALSE,
                       seen |-> Observe(StartObs(params[t]), ev) ]
    /\ pc' = [ pc EXCEPT ![t] = "idle" ]
    /\ request' = [ request EXCEPT ![t] = NULL ]
    /\ params' = [ params EXCEPT ![t] = NoParams ]
    /\ stackIndex' = { }
    /\ UNCHANGED << requestStackG, requestStackCountG, verifyPeer,
                    context >>
    /\ UNCHANGED << serial, pure, mem >>

\* request_get succeeds, no context: request_perform enters
\* curl_easy_perform.
EasyStart(t) ==
    /\ pc[t] = "get"
    /\ request[t] # WildPointer
    /\ Target(t) # NULL
    /\ ~params[t].useContext
    /\ LET r == Target(t)
       IN  /\ req' = Put(req, r, InitRequest(Before(t), params[t]))
           /\ obs' = Put(obs, r, StartObs(params[t]))
           /\ request' = [ request EXCEPT ![t] = r ]
    /\ pc' = [ pc EXCEPT ![t] = "easy" ]
    /\ fin' = NoCall
    /\ stackIndex' = { }
    /\ UNCHANGED << requestStackG, requestStackCountG, verifyPeer,
                    context, params >>

PerformEasyStart(t) ==
    /\ EasyStart(t)
    /\ UNCHANGED << serial, pure, mem >>

\* request_get succeeds, a context is given and curl_multi_add_handle
\* returns CURLM_OK: the Request is linked onto context->requests and
\* request_perform returns.
PerformRegister(t) ==
    /\ pc[t] = "get"
    /\ request[t] # WildPointer
    /\ Target(t) # NULL
    /\ params[t].useContext
    /\ LET r == Target(t)
           L == LinkRequest(Put(req, r, InitRequest(Before(t), params[t])),
                            context.requests, r)
       IN  /\ req' = L.req
           /\ context' = [ context EXCEPT !.requests = L.head,
                                          !.curlm = @ \cup { r } ]
           /\ obs' = Put(obs, r, StartObs(params[t]))
    /\ fin' = CallOf("registered", "OK", TRUE, << >>)
    /\ pc' = [ pc EXCEPT ![t] = "idle" ]
    /\ request' = [ request EXCEPT ![t] = NULL ]
    /\ params' = [ params EXCEPT ![t] = NoParams ]
    /\ stackIndex' = { }
    /\ UNCHANGED << requestStackG, requestStackCountG, verifyPeer >>
    /\ UNCHANGED << serial, pure, mem >>

\* request_get succeeds, a context is given and curl_multi_add_handle
\* fails: the status is set and request_finish runs at once.
RegisterFail(t, Env) ==
    /\ pc[t] = "get"
    /\ request[t] # WildPointer
    /\ Target(t) # NULL
    /\ params[t].useContext
    /\ \E mc \in MultiCodes \ { "CURLM_OK" }, e \in Env :
           LET r == Target(t)
               R0 == MultiFailStatus(InitRequest(Before(t), params[t]), mc)
               F == request_finish(R0, e.infoOK, e.code, e.pret)
           IN  /\ fin' = [ kind |-> "addfail", failure |-> R0.status,
                           started |-> TRUE,
                           seen |-> Observe(StartObs(params[t]), F.ev) ]
               /\ Release(r, Put(req, r, F.r), Put(obs, r, NoObs))
    /\ pc' = [ pc EXCEPT ![t] = "idle" ]
    /\ request' = [ request EXCEPT ![t] = NULL ]
    /\ params' = [ params EXCEPT ![t] = NoParams ]
    /\ UNCHANGED << verifyPeer, context >>
    /\ UNCHANGED << serial, pure, mem >>

PerformRegisterFail(t) ==
    RegisterFail(t, InfoEnv(InitRequest(Before(t), params[t])))

\* The CURLcode a transfer may end with, given what the hooks told the
\* HTTP client.
EndCodes(R) ==
    CASE R.curlAborted = "read" -> { "CURLE_ABORTED_BY_CALLBACK" }
      [] R.curlAborted = "write" -> { "CURLE_WRITE_ERROR" }
      [] OTHER -> CurlCodes \ { "CURLE_ABORTED_BY_CALLBACK" }

\* curl_easy_perform returns in request_perform: the transport code is
\* mapped, request_finish makes the last callbacks and releases the
\* Request, and request_perform returns.
EasyReturn(t) ==
    /\ pc[t] = "easy"
    /\ \E cc \in EndCodes(req[request[t]]), e \in InfoEnv(req[request[t]]) :
           LET r == request[t]
               F == request_finish(EasyStatus(req[r], cc), e.infoOK, e.code, e.pret)
           IN  /\ fin' = [ kind |-> "easy", failure |-> "OK", started |-> TRUE,
                           seen |-> Observe(obs[r], F.ev) ]
               /\ Release(r, Put(req, r, F.r), obs)
    /\ pc' = [ pc EXCEPT ![t] = "idle" ]
    /\ request' = [ request EXCEPT ![t] = NULL ]
    /\ params' = [ params EXCEPT ![t] = NoParams ]
    /\ UNCHANGED << verifyPeer, context >>

PerformEasyReturn(t) ==
    /\ EasyReturn(t)
    /\ UNCHANGED << serial, pure, mem >>

\* -------------------------------------------------- the HTTP client's side

\* A transfer the HTTP client may call a hook for: under way, not aborted;
\* the transfers of the multi handle run inside the event loop, which the
\* context's thread runs between its request_perform calls.
Running(r) ==
    /\ r \in alive
    /\ InFlight(r)
    /\ req[r].curlAborted = "no"
    /\ InMulti(r) => (pc[ContextThread] = "idle")

\* The HTTP client received header bytes.
CurlHeaderFunc(r) ==
    /\ Running(r)
    /\ req' = [ req EXCEPT ![r] = curl_header_func(req[r]) ]
    /\ fin' = NoCall
    /\ stackIndex' = { }
    /\ UNCHANGED << requestStackG, requestStackCountG, verifyPeer,
                    context, pc, request, params, obs >>
    /\ UNCHANGED << serial, pure, mem >>

\* The HTTP client asks for body bytes.
CurlReadFunc(r) ==
    /\ Running(r)
    /\ \E len \in 1 .. MaxLen, ret \in (0 - 1) .. (MaxLen + 1) :
           LET X == curl_read_func(req[r], len, ret)
           IN  /\ req' = [ req EXCEPT ![r] =
                             [ X.r EXCEPT !.curlAborted =
                                   IF X.abort THEN "read" ELSE @ ] ]
               /\ obs' = [ obs EXCEPT ![r] =
                             [ Observe(obs[r], X.ev) EXCEPT !.sent = @ + X.n ] ]
    /\ fin' = NoCall
    /\ stackIndex' = { }
    /\ UNCHANGED << requestStackG, requestStackCountG, verifyPeer,
                    context, pc, request, params >>
    /\ UNCHANGED << serial, pure, mem >>

\* The HTTP client hands over body bytes it received.
CurlWriteFunc(r) ==
    /\ Running(r)
    /\ \E len \in 0 .. MaxLen, e \in InfoEnv(req[r]), fret \in CallbackStatuses,
          est \in ParserStatuses, parsed \in BOOLEAN :
           LET X == curl_write_func(req[r], len, e.infoOK, e.code, e.pret,
                                    fret, est, parsed)
           IN  /\ req' = [ req EXCEPT ![r] =
                             [ X.r EXCEPT !.curlAborted =
                                   IF X.n # len THEN "write" ELSE @ ] ]
               /\ obs' = [ obs EXCEPT ![r] =
                             LET O == Observe(obs[r], X.ev)
                             IN  IF (obs[r].fromReturned = "OK")
                                    /\ (O.fromReturned # "OK")
                                 THEN [ O EXCEPT !.refused = X.n ]
                                 ELSE O ]
    /\ fin' = NoCall
    /\ stackIndex' = { }
    /\ UNCHANGED << requestStackG, requestStackCountG, verifyPeer,
                    context, pc, request, params >>
    /\ UNCHANGED << serial, pure, mem >>

\* The event loop finds the transfer of Request r done with CURLcode cc:
\* it takes r off context->requests and off the multi handle, maps the
\* code and calls request_finish.
MultiFinish(r) ==
    /\ InMulti(r)
    /\ pc[ContextThread] = "idle"
    /\ \E cc \in EndCodes(req[r]), e \in InfoEnv(req[r]) :
           LET U == UnlinkRequest(req, context.requests, r)
               F == request_finish(EasyStatus(U.req[r], cc), e.infoOK, e.code, e.pret)
           IN  /\ context' = [ context EXCEPT !.requests = U.head,
                                              !.curlm = @ \ { r } ]
               /\ fin' = [ kind |-> "multi", failure |-> "OK", started |-> TRUE,
                           seen |-> Observe(obs[r], F.ev) ]
               /\ Release(r, Put(U.req, r, F.r), obs)
    /\ UNCHANGED << verifyPeer, pc, request, params >>
    /\ UNCHANGED << serial, pure, mem >>

\* ------------------------------------------------------------ life cycle

\* No thread is inside request_perform and no transfer is under way.
Quiescent ==
    /\ \A t \in Threads : pc[t] = "idle"
    /\ context.curlm = { }

\* request_api_initialize(userAgentInfo, flags, defaultHostName): sets
\* verifyPeer from the flags and empties the stack by setting the count to
\* 0.  done says how far the call gets: "curl" (curl_global_init fails),
\* "host" (the host name is too long) or "all".  The Requests that were in
\* the stack are not destroyed: nothing points to them any more (a slot at
\* or above the count is written before it is read again, so the model
\* clears it).
request_api_initialize(flag, done) ==
    /\ Quiescent
    /\ (done = "all") => (Cardinality(Lost \cup Pooled) <= MaxLeaks)
    /\ verifyPeer' = IF done = "curl" THEN verifyPeer ELSE flag
    /\ requestStackCountG' = IF done = "all" THEN 0 ELSE requestStackCountG
    /\ requestStackG' = IF done = "all" THEN [ i \in StackSlots |-> NULL ]
                        ELSE requestStackG
    /\ req' = IF done = "all"
              THEN [ r \in alive |-> IF r \in Pooled THEN Unreferenced(req[r])
                                     ELSE req[r] ]
              ELSE req
    /\ fin' = NoCall
    /\ stackIndex' = { }
    /\ UNCHANGED << context, pc, request, params, obs >>
    /\ UNCHANGED << serial, pure, mem >>

\* request_api_deinitialize(): while (requestStackCountG--)
\* request_destroy(requestStackG[requestStackCountG]).  From a count >= 0
\* the loop destroys the pooled Requests and leaves the count at -1; from
\* a negative count its first read is outside the array.
request_api_deinitialize ==
    /\ Quiescent
    /\ IF requestStackCountG >= 0
       THEN /\ requestStackCountG' = 0 - 1
            /\ stackIndex' = 0 .. (requestStackCountG - 1)
            /\ requestStackG' = [ i \in StackSlots |-> NULL ]
            /\ req' = [ r \in alive \ Pooled |-> req[r] ]
            /\ obs' = [ r \in alive \ Pooled |-> obs[r] ]
            /\ pc' = pc
       ELSE /\ requestStackCountG' = requestStackCountG - 1
            /\ stackIndex' = { requestStackCountG - 1 }
            /\ pc' = [ t \in Threads |-> "crashed" ]
            /\ UNCHANGED << requestStackG, req, obs >>
    /\ fin' = NoCall
    /\ UNCHANGED << verifyPeer, context, request, params >>
    /\ UNCHANGED << serial, pure, mem >>

\* ------------------------------------------------------------------ Next

\* The steps of request_perform for thread t, but for its entry into
\* request_get and the failure of request_get after the pop.
Perform(t) ==
    \/ PerformPrepFail(t)
    \/ GetAllocFail(t)
    \/ PerformSetoptFail(t)
    \/ PerformEasyStart(t)
    \/ PerformRegister(t)
    \/ PerformRegisterFail(t)
    \/ PerformEasyReturn(t)

\* The HTTP client calling a hook of a running transfer.
Hooks ==
    \E r \in RequestIds :
        \/ CurlHeaderFunc(r)
        \/ CurlReadFunc(r)
        \/ CurlWriteFunc(r)

\* The engine, one request at a time, with every hook and any params.
Next ==
    \/ \E p \in AllParams :
           /\ context.curlm = { }
           /\ RequestGetPop(ContextThread, p)
    \/ GetSetupFail(ContextThread)
    \/ Perform(ContextThread)
    \/ Hooks
    \/ \E r \in RequestIds : MultiFinish(r)

Spec == Init /\ [][Next]_vars

\* ------------------------------------------------ the pool under threads

\* The params of the performs that exercise the pool: no payload callback,
\* nothing to send; with or without the context.
PoolParams == ParamsOf({ FALSE }, { 0 }, BOOLEAN)

\* Requests 1 .. n linked onto an empty context in that order, as n
\* successful request_perform calls with a context leave them.
RECURSIVE LinkedUpTo(_, _, _)
LinkedUpTo(R, first, last) ==
    IF first > last
    THEN [ req |-> R, head |-> NULL ]
    ELSE LET L == LinkedUpTo(R, first, last - 1)
         IN  LinkRequest(L.req, L.head, last)

\* The pool sizes the runs start from: empty and full.
PoolFills == { 0, REQUEST_STACK_SIZE }

\* A state the engine is in between request_perform calls: k Requests in
\* the pool (the Requests 1 .. k, pushed in that order) and m more on the
\* context, their transfers under way.  k = m = 0 is the state after
\* request_api_initialize; the others are reached from it by k + m
\* performs on the context of which k have finished.
InitPool ==
    \E k \in PoolFills, m \in 0 .. MaxInFlight :
        LET ids == 1 .. (k + m)
            R0 == [ r \in ids |->
                      IF r <= k THEN Parked(BlankRequest)
                      ELSE InitRequest(BlankRequest, NoParams) ]
            L == LinkedUpTo(R0, k + 1, k + m)
        IN  /\ requestStackG = [ i \in StackSlots |-> IF i < k THEN i + 1 ELSE NULL ]
            /\ requestStackCountG = k
            /\ stackIndex = { }
            /\ verifyPeer \in { 0, 1 }
            /\ req = L.req
            /\ context = [ requests |-> L.head, curlm |-> (k + 1) .. (k + m) ]
            /\ pc = [ t \in Threads |-> "idle" ]
            /\ request = [ t \in Threads |-> NULL ]
            /\ params = [ t \in Threads |-> NoParams ]
            /\ obs = [ r \in ids |-> NoObs ]
            /\ fin = NoCall
            /\ serial = NoSerial
            /\ pure = NoPure
            /\ mem = NoMem

\* No more Requests exist than the threads and the context can hold at
\* once.  request_get's failure after the pop destroys a pooled Request;
\* the runs draw it only in such states, so that a full pool is not emptied
\* one failure at a time.
FewRequests ==
    Cardinality(alive) <= NumThreads + MaxInFlight + MaxLeaks

\* Any number of threads inside request_perform, the context's thread also
\* registering requests and running the event loop; no hook is called (the
\* transfers end without one).
NextPool ==
    \/ \E t \in Threads, p \in PoolParams :
           /\ p.useContext => (Cardinality(context.curlm) < MaxInFlight)
           /\ RequestGetPop(t, p)
    \/ \E t \in Threads :
           /\ FewRequests
           /\ GetSetupFail(t)
    \/ \E t \in Threads : Perform(t)
    \/ \E r \in RequestIds : MultiFinish(r)

SpecPool == InitPool /\ [][NextPool]_vars

\* ------------------------------------------------- the context's list

\* The transfers the context holds at once.
MaxOnContext == 2

\* The params of the performs on the context: with or without a
\* propertiesCallback, nothing to send.
ContextParams ==
    { p \in ParamsOf(BOOLEAN, { 0 }, { TRUE }) :
        (~p.toS3Callback) /\ (~p.fromS3Callback) /\ (p.verifyPeerSet = 0) }

\* What curl_easy_getinfo answers for a handle on which no transfer was
\* started: the response code 0.
FreshInfo == { [ infoOK |-> TRUE, code |-> 0, pret |-> "OK" ] }

\* The params of a plain perform: no
\* callback, nothing to send, no context.
PlainParams == ParamsOf({ FALSE }, { 0 }, { FALSE })

\* The context's thread registering requests one after the other, the
\* registration failing or not, and the event loop finishing any of the
\* registered transfers, while the other threads perform requests without
\* context; no hook is called.  The runs start with the pool empty or full.
NextContext ==
    \/ \E p \in ContextParams :
           /\ Cardinality(context.curlm) < MaxOnContext
           /\ RequestGetPop(ContextThread, p)
    \/ \E t \in Threads \ { ContextThread }, p \in PlainParams :
           RequestGetPop(t, p)
    \/ PerformRegister(ContextThread)
    \/ RegisterFail(ContextThread, FreshInfo)
    \/ \E t \in Threads \ { ContextThread } : PerformEasyStart(t)
    \/ \E t \in Threads \ { ContextThread } : PerformEasyReturn(t)
    \/ \E r \in RequestIds : MultiFinish(r)

SpecContext == InitPool /\ [][NextContext]_vars

\* request_api_initialize and request_api_deinitialize, called while no
\* perform is under way, and performs from any thread between them.  A
\* perform that finds the count negative stores its Request outside the
\* array; the runs make such performs while fewer than MaxLeaks Requests
\* are lost and the count is no lower than -(NumThreads + MaxLeaks).
NextLifecycle ==
    \/ \E t \in Threads, p \in PlainParams :
           /\ (requestStackCountG < 0) =>
                  /\ Cardinality(Lost) < MaxLeaks
                  /\ requestStackCountG + NumThreads + MaxLeaks > 0
           /\ RequestGetPop(t, p)
    \/ \E t \in Threads : GetCrash(t)
    \/ \E t \in Threads : GetAllocFail(t)
    \/ \E t \in Threads : PerformEasyStart(t)
    \/ \E t \in Threads : PerformEasyReturn(t)
    \/ \E flag \in { 0, 1 }, done \in { "curl", "host", "all" } :
           request_api_initialize(flag, done)
    \/ request_api_deinitialize

SpecLifecycle == Init /\ [][NextLifecycle]_vars

\* ------------------------------------------------------- serial performs

\* The number of performs a serial run makes.
MaxPerforms == 34

\* One caller performing request after request without a context, each
\* perform returning before the next is made, request_get succeeding in
\* each.  The run counts its performs and remembers the Request each one
\* hands to request_release.
SerialGet(p) ==
    /\ serial.performs < MaxPerforms
    /\ GetPop(ContextThread, p)
    /\ serial' = [ serial EXCEPT !.performs = @ + 1 ]
    /\ UNCHANGED << pure, mem >>

SerialStart ==
    /\ EasyStart(ContextThread)
    /\ UNCHANGED << serial, pure, mem >>

SerialReturn ==
    /\ EasyReturn(ContextThread)
    /\ serial' = [ serial EXCEPT !.released = request[ContextThread] ]
    /\ UNCHANGED << pure, mem >>

NextSerial ==
    \/ \E p \in PlainParams : SerialGet(p)
    \/ SerialStart
    \/ SerialReturn

SpecSerial == Init /\ [][NextSerial]_vars

\* ------------------------------------------------------ header texts

\* A C string is the sequence of its characters; Nul is what is read at
\* and past its end.
Nul == ""

CharAt(str, i) == IF i <= Len(str) THEN str[i] ELSE Nul

\* The characters of the header texts, in the order of their codes.
CharOrder ==
    << "\t", "\n", "\r", " ", "%", "&", ",", "-", "/", "0", "1", "2", "3", "4", "5",
       "6", "7", "8", "9", ":", ";", "=", "A", "B", "C", "D", "E", "F",
       "G", "H", "I", "J", "K", "L", "M", "N", "O", "P", "Q", "R", "S",
       "T", "U", "V", "W", "X", "Y", "Z", "a", "b", "c", "d", "e", "f",
       "g", "h", "i", "j", "k", "l", "m", "n", "o", "p", "q", "r", "s",
       "t", "u", "v", "w", "x", "y", "z" >>

Ord(c) == IF c = Nul THEN 0 ELSE CHOOSE i \in DOMAIN CharOrder : CharOrder[i] = c

UpperCase == { CharOrder[i] : i \in { j \in DOMAIN CharOrder :
                                        /\ Ord("A") <= j
                                        /\ j <= Ord("Z") } }

\* tolower(c).
tolower(c) == IF c \in UpperCase THEN CharOrder[Ord(c) + 26] ELSE c

\* is_blank(c).
is_blank(c) == c \in { " ", "\t" }

\* strncmp(s1, s2, n) == 0, and with fold !strncasecmp(s1, s2, n): the
\* first n characters agree, the comparison ending at the end of the
\* strings.
RECURSIVE SameUpTo(_, _, _, _, _)
SameUpTo(s1, s2, n, i, fold) ==
    IF i > n THEN TRUE
    ELSE LET c1 == IF fold THEN tolower(CharAt(s1, i)) ELSE CharAt(s1, i)
             c2 == IF fold THEN tolower(CharAt(s2, i)) ELSE CharAt(s2, i)
         IN  IF c1 # c2 THEN FALSE
             ELSE IF c1 = Nul THEN TRUE
             ELSE SameUpTo(s1, s2, n, i + 1, fold)

strncmp(s1, s2, n) == IF SameUpTo(s1, s2, n, 1, FALSE) THEN 0 ELSE 1

strncasecmp(s1, s2, n) == IF SameUpTo(s1, s2, n, 1, TRUE) THEN 0 ELSE 1

\* headerle_nocase(header1, header2), from character i on.
RECURSIVE HeaderLeFrom(_, _, _)
HeaderLeFrom(header1, header2, i) ==
    IF CharAt(header1, i) = ":" THEN 1
    ELSE IF CharAt(header2, i) = ":" THEN 0
    ELSE IF Ord(tolower(CharAt(header2, i))) < Ord(tolower(CharAt(header1, i)))
    THEN 0
    ELSE IF Ord(tolower(CharAt(header2, i))) > Ord(tolower(CharAt(header1, i)))
    THEN 1
    ELSE HeaderLeFrom(header1, header2, i + 1)

headerle_nocase(header1, header2) == HeaderLeFrom(header1, header2, 1)

\* headerle(header1, header2), from character i on: the names compared
\* byte by byte, 0 for equal names.
RECURSIVE HeaderLeCaseFrom(_, _, _)
HeaderLeCaseFrom(header1, header2, i) ==
    IF CharAt(header1, i) = ":"
    THEN (IF CharAt(header2, i) # ":" THEN 1 ELSE 0)
    ELSE IF CharAt(header2, i) = ":" THEN 0
    ELSE IF Ord(CharAt(header2, i)) < Ord(CharAt(header1, i)) THEN 0
    ELSE IF Ord(CharAt(header2, i)) > Ord(CharAt(header1, i)) THEN 1
    ELSE HeaderLeCaseFrom(header1, header2, i + 1)

headerle(header1, header2) == HeaderLeCaseFrom(header1, header2, 1)

\* The characters that end the name of a query parameter.
EndOfName == { "=", "&", Nul }

\* paramle(param1, param2), from character i on.
RECURSIVE ParamLeFrom(_, _, _)
ParamLeFrom(param1, param2, i) ==
    IF CharAt(param1, i) \in EndOfName THEN 1
    ELSE IF CharAt(param2, i) \in EndOfName THEN 0
    ELSE IF Ord(CharAt(param2, i)) < Ord(CharAt(param1, i)) THEN 0
    ELSE IF Ord(CharAt(param2, i)) > Ord(CharAt(param1, i)) THEN 1
    ELSE ParamLeFrom(param1, param2, i + 1)

paramle(param1, param2) == ParamLeFrom(param1, param2, 1)

\* The less_func_t handed to general_gnome_sort.
LessFuncs == { "headerle_nocase", "paramle" }

ApplyLess(less, p1, p2) ==
    IF less = "paramle" THEN paramle(p1, p2) ELSE headerle_nocase(p1, p2)

\* general_gnome_sort(params, size, less) at index i (counted from 0) with
\* last_highest.
RECURSIVE GnomeSortFrom(_, _, _, _)
GnomeSortFrom(ps, i, last_highest, less) ==
    IF i >= Len(ps) THEN ps
    ELSE IF (i = 0) \/ (ApplyLess(less, ps[i], ps[i + 1]) # 0)
    THEN GnomeSortFrom(ps, last_highest + 1, last_highest + 1, less)
    ELSE GnomeSortFrom([ ps EXCEPT ![i] = ps[i + 1], ![i + 1] = ps[i] ],
                       i - 1, last_highest, less)

general_gnome_sort(ps, less) == GnomeSortFrom(ps, 0, 0, less)

\* header_gnome_sort(headers, size) at index i (counted from 0) with
\* last_highest.
RECURSIVE HeaderGnomeSortFrom(_, _, _)
HeaderGnomeSortFrom(headers, i, last_highest) ==
    IF i >= Len(headers) THEN headers
    ELSE IF (i = 0) \/ (headerle(headers[i], headers[i + 1]) # 0)
    THEN HeaderGnomeSortFrom(headers, last_highest + 1, last_highest + 1)
    ELSE HeaderGnomeSortFrom(
             [ headers EXCEPT ![i] = headers[i + 1], ![i + 1] = headers[i] ],
             i - 1, last_highest)

header_gnome_sort(headers) == HeaderGnomeSortFrom(headers, 0, 0)

\* The literal "content-length".
ContentLengthName ==
    << "c", "o", "n", "t", "e", "n", "t", "-", "l", "e", "n", "g", "t",
       "h" >>

\* canonicalize_headers, the element skip: the list from its second element
\* if the first compares equal to "content-length" over 15 characters.
SkipContentLength(curl_headers) ==
    IF (curl_headers # << >>)
          /\ (strncasecmp(Head(curl_headers), ContentLengthName, 15) = 0)
    THEN Tail(curl_headers)
    ELSE curl_headers

RECURSIVE SkipBlanks(_)
SkipBlanks(str) ==
    IF (str # << >>) /\ is_blank(Head(str)) THEN SkipBlanks(Tail(str)) ELSE str

RECURSIVE DropTrailingBlanks(_)
DropTrailingBlanks(buf) ==
    IF (buf # << >>) /\ is_blank(buf[Len(buf)])
    THEN DropTrailingBlanks(SubSeq(buf, 1, Len(buf) - 1))
    ELSE buf

\* canonicalize_headers, the copy of a header's value c into buf, a
\* "\r\n" followed by a blank folded into a comma.
RECURSIVE CopyValue(_, _)
CopyValue(c, buf) ==
    IF c = << >> THEN buf
    ELSE IF (CharAt(c, 1) = "\r") /\ (CharAt(c, 2) = "\n") /\ is_blank(CharAt(c, 3))
    THEN CopyValue(SkipBlanks(SubSeq(c, 4, Len(c))),
                   Append(DropTrailingBlanks(buf), ","))
    ELSE CopyValue(Tail(c), Append(buf, Head(c)))

\* The characters of a header before its colon.
RECURSIVE NameOf(_)
NameOf(header) ==
    IF (header = << >>) \/ (Head(header) = ":") THEN << >>
    ELSE << Head(header) >> \o NameOf(Tail(header))

LowerText(str) == [ i \in DOMAIN str |-> tolower(str[i]) ]

\* canonicalize_headers, the loop over the sorted headers from the i-th
\* on: a header whose first lastHeaderLen characters are those of the one
\* before adds its value to that one's line, any other starts a line and
\* adds its name to signedHeaders.
RECURSIVE CanonicalLines(_, _, _, _, _)
CanonicalLines(headers, i, buf, signedHeaders, lastHeaderLen) ==
    IF i > Len(headers)
    THEN [ buf |-> buf, signedHeaders |-> signedHeaders ]
    ELSE LET header == headers[i]
             same == (i > 1) /\ (strncmp(header, headers[i - 1], lastHeaderLen) = 0)
             name == LowerText(NameOf(header))
             skip == IF same THEN lastHeaderLen ELSE Len(name) + 1
             start == IF same
                      THEN SubSeq(buf, 1, Len(buf) - 1) \o << "," >>
                      ELSE buf \o name \o << ":" >>
             value == SkipBlanks(SubSeq(header, skip + 1, Len(header)))
         IN  CanonicalLines(
                 headers, i + 1,
                 Append(CopyValue(value, start), "\n"),
                 IF same THEN signedHeaders
                 ELSE IF signedHeaders # << >>
                 THEN signedHeaders \o << ";" >> \o name
                 ELSE name,
                 skip)

\* canonicalize_headers(buf, maxlen, plen, curl_headers, values) into an
\* empty buf that is large enough: the canonical headers, an empty line and
\* the signed headers in buf, the signed headers in values->signedHeaders.
canonicalize_headers(curl_headers) ==
    LET headers == general_gnome_sort(SkipContentLength(curl_headers), "headerle_nocase")
        C == CanonicalLines(headers, 1, << >>, << >>, 0)
    IN  [ buf |-> C.buf \o << "\n" >> \o C.signedHeaders \o << "\n" >>,
          signedHeaders |-> C.signedHeaders ]

\* ------------------------------------------- functions applied to inputs

\* The response codes request_finish is applied to: every code its switch
\* names, the ends of 200..299 and codes on either side of each.
FinishCodes ==
    { 0, 100, 101, 199, 200, 204, 299, 300, 301, 302, 307, 308, 400, 401, 403,
      404, 405, 409, 411, 412, 416, 417, 500, 501, 502, 503, 504 }

\* The statuses a Request may carry into request_finish.
FinishStatuses ==
    { "OK", "AbortedByCallback", "InternalError", "XmlParseFailure",
      "ConnectionFailed" }

\* request_finish applied to a Request with any status, with or without a
\* parsed error, its headers done or not, and any response code.
ApplyFinish ==
    /\ pure = NoPure
    /\ \E st \in FinishStatuses, ep \in BOOLEAN, made \in BOOLEAN,
          code \in FinishCodes, e \in [ infoOK : BOOLEAN, pret : CallbackStatuses,
                                        cb : BOOLEAN ] :
           /\ made => (e.infoOK /\ (e.pret = "OK") /\ ~e.cb)
           /\ LET R == [ BlankRequest EXCEPT
                            !.status = st, !.errorParsed = ep,
                            !.propertiesCallbackMade = made,
                            !.propertiesCallback = e.cb,
                            !.httpResponseCode = IF made THEN code ELSE 0 ]
              IN  pure' = [ fn |-> "request_finish", R |-> R,
                            infoOK |-> e.infoOK, code |-> code, pret |-> e.pret,
                            out |-> request_finish(R, e.infoOK, code, e.pret) ]
    /\ UNCHANGED << requestStackG, requestStackCountG, stackIndex, verifyPeer,
                    req, context, pc, request, params, obs, fin, serial, mem >>

\* The CURLcode values the mapping is applied to: those the transfers of
\* the engine end with and some more that the switch does not name.
AppliedCurlCodes ==
    CurlCodes \cup { "CURLE_UNSUPPORTED_PROTOCOL", "CURLE_SEND_ERROR",
                     "CURLE_SSL_CONNECT_ERROR", "CURLE_TOO_MANY_REDIRECTS" }

\* request_perform after curl_easy_perform returned: the code is mapped
\* and stored, for a Request with any status.
ApplyEasyStatus ==
    /\ pure = NoPure
    /\ \E st \in FinishStatuses, cc \in AppliedCurlCodes :
           LET R == [ BlankRequest EXCEPT !.status = st ]
           IN  pure' = [ fn |-> "curl_easy_perform", R |-> R, code |-> cc,
                         mapped |-> request_curl_code_to_status(cc),
                         out |-> EasyStatus(R, cc) ]
    /\ UNCHANGED << requestStackG, requestStackCountG, stackIndex, verifyPeer,
                    req, context, pc, request, params, obs, fin, serial, mem >>

\* request_perform up to the start of the transfer, for any global
\* verifyPeer and any context settings: the option left on the handle.
ApplyVerifyPeer ==
    /\ pure = NoPure
    /\ \E p \in PoolParams, global \in { 0, 1 } :
           pure' = [ fn |-> "CURLOPT_SSL_VERIFYPEER", params |-> p,
                     global |-> global, out |-> SslVerifyPeer(p, global) ]
    /\ UNCHANGED << requestStackG, requestStackCountG, stackIndex, verifyPeer,
                    req, context, pc, request, params, obs, fin, serial, mem >>

\* ---- S3_generate_authenticated_query_string: the expires argument
\* An int64_t is four 16-bit limbs, most significant first, in two's
\* complement; the limbs keep the width of the C type.
Limbs == 0 .. 65535

\* #define MAX_EXPIRES (((int64_t) 1 << 31) - 1)
MAX_EXPIRES == << 0, 0, 32767, 65535 >>

\* expires < 0
IsNegative(e) == Head(e) >= 32768

\* expires > MAX_EXPIRES
AboveMax(e) == /\ ~ IsNegative(e)
               /\ \/ e[1] # MAX_EXPIRES[1]
                  \/ e[2] # MAX_EXPIRES[2]
                  \/ e[3] > MAX_EXPIRES[3]

ClampExpiresNegativeOnly(e) == IF IsNegative(e) THEN MAX_EXPIRES ELSE e

\* if (expires < 0) expires = MAX_EXPIRES;
\* else if (expires > MAX_EXPIRES) expires = MAX_EXPIRES;
ClampExpires(e) ==
    IF IsNegative(e) THEN MAX_EXPIRES
    ELSE IF AboveMax(e) THEN MAX_EXPIRES
    ELSE e

DigitChar == << "0", "1", "2", "3", "4", "5", "6", "7", "8", "9" >>

\* Long division of a limb sequence by ten, carrying the remainder r in.
RECURSIVE DivTen(_, _)
DivTen(e, r) ==
    IF e = << >> THEN [ q |-> << >>, r |-> r ]
    ELSE LET cur  == r * 65536 + Head(e)
             rest == DivTen(Tail(e), cur % 10)
         IN  [ q |-> << cur \div 10 >> \o rest.q, r |-> rest.r ]

IsZero(e) == \A i \in DOMAIN e : e[i] = 0

RECURSIVE DigitsOf(_)
DigitsOf(e) ==
    IF IsZero(e) THEN << >>
    ELSE LET d == DivTen(e, 0)
         IN  DigitsOf(d.q) \o << DigitChar[d.r + 1] >>

\* printf of an unsigned integer in decimal ("%llu").
FormatUnsigned(e) == IF IsZero(e) THEN << "0" >> ELSE DigitsOf(e)

\* e + 1 modulo the width of e.
RECURSIVE Increment(_)
Increment(e) ==
    IF e = << >> THEN << >>
    ELSE LET n == Len(e)
         IN  IF e[n] = 65535
             THEN Increment(SubSeq(e, 1, n - 1)) \o << 0 >>
             ELSE SubSeq(e, 1, n - 1) \o << e[n] + 1 >>

\* -e in two's complement.
Negate(e) == Increment([ i \in DOMAIN e |-> 65535 - e[i] ])

\* printf of a signed integer in decimal ("%ld").
FormatSigned(e) ==
    IF IsNegative(e) THEN << "-" >> \o FormatUnsigned(Negate(e))
    ELSE FormatUnsigned(e)

\* The widths of long among the platforms the library builds on.
LongBits == { 32, 64 }

\* (long) expires: the low limbs that fit the width of long.
CastLong(e, bits) == SubSeq(e, Len(e) - (bits \div 16) + 1, Len(e))

\* signbuf_append("%llu\n", (unsigned long long) expires)
SignedExpires(e) == FormatUnsigned(ClampExpires(e))

\* sprintf(queryParams, "...&Expires=%ld...", (long) expires)
QueryExpires(e, bits) == FormatSigned(CastLong(ClampExpires(e), bits))

\* The int64_t arguments tried: both signs, the limits of the type, and
\* the values around MAX_EXPIRES.
ExpiresInputs ==
    { << a, b, c, d >> : a \in { 0, 1, 32767, 32768, 65535 },
                         b \in { 0, 1, 65535 },
                         c \in { 0, 32767, 32768, 65535 },
                         d \in { 0, 1, 65534, 65535 } }

ApplyQueryString ==
    /\ pure = NoPure
    /\ \E e \in ExpiresInputs, bits \in LongBits :
           pure' = [ fn |-> "S3_generate_authenticated_query_string",
                     expires |-> e, bits |-> bits,
                     signbuf |-> SignedExpires(e),
                     queryParams |-> QueryExpires(e, bits) ]
    /\ UNCHANGED << requestStackG, requestStackCountG, stackIndex, verifyPeer,
                    req, context, pc, request, params, obs, fin, serial, mem >>

\* The response codes the write hook is applied to: the ends of 200..299
\* and the codes on either side.
WriteCodes == { 0, 199, 200, 299, 300, 404 }

\* curl_write_func applied to a Request with any status, its headers done
\* or not, with and without propertiesCallback and fromS3Callback, for any
\* response code and any answers of the callbacks and the error parser.
ApplyWrite ==
    /\ pure = NoPure
    /\ \E st \in { "OK", "AbortedByCallback" }, made \in BOOLEAN,
          code \in WriteCodes, len \in 0 .. MaxLen,
          e \in [ infoOK : BOOLEAN, pret : CallbackStatuses, pcb : BOOLEAN,
                  fcb : BOOLEAN, fret : CallbackStatuses,
                  est : ParserStatuses, parsed : BOOLEAN ] :
           /\ made => (e.infoOK /\ (e.pret = "OK"))
           /\ (~(e.infoOK /\ e.pcb /\ Is2xx(code))) => (e.pret = "OK")
           /\ (~e.fcb) => (e.fret = "OK")
           /\ (e.est # "OK") => ~e.parsed
           /\ LET R == [ BlankRequest EXCEPT
                            !.status = st,
                            !.propertiesCallbackMade = made,
                            !.propertiesCallback = e.pcb,
                            !.fromS3Callback = e.fcb,
                            !.httpResponseCode = IF made THEN code ELSE 0 ]
              IN  pure' = [ fn |-> "curl_write_func", R |-> R, len |-> len,
                            infoOK |-> e.infoOK, code |-> code, pret |-> e.pret,
                            fret |-> e.fret, est |-> e.est,
                            parsed |-> e.parsed,
                            out |-> curl_write_func(R, len, e.infoOK, code, e.pret,
                                                    e.fret, e.est, e.parsed) ]
    /\ UNCHANGED << requestStackG, requestStackCountG, stackIndex, verifyPeer,
                    req, context, pc, request, params, obs, fin, serial, mem >>

\* curl_read_func applied to a Request with any status, its headers done
\* or not, with and without toS3Callback, for any bytes remaining, buffer
\* size and answer of the callback.
ApplyRead ==
    /\ pure = NoPure
    /\ \E st \in { "OK", "AbortedByCallback" }, made \in BOOLEAN,
          tcb \in BOOLEAN, pcb \in BOOLEAN, remaining \in 0 .. MaxTotalSize,
          len \in 1 .. MaxLen, ret \in (0 - 1) .. (MaxLen + 1) :
           LET R == [ BlankRequest EXCEPT
                         !.status = st,
                         !.propertiesCallbackMade = made,
                         !.propertiesCallback = pcb,
                         !.toS3Callback = tcb,
                         !.toS3CallbackBytesRemaining = remaining ]
           IN  pure' = [ fn |-> "curl_read_func", R |-> R, len |-> len,
                         ret |-> ret, out |-> curl_read_func(R, len, ret) ]
    /\ UNCHANGED << requestStackG, requestStackCountG, stackIndex, verifyPeer,
                    req, context, pc, request, params, obs, fin, serial, mem >>

\* Header lines as setup_curl appends them: the Content-Length line of a
\* PUT, standard headers, x-amz- lines (one with a folded value, one with
\* the name of another).
ContentLengthLine ==
    << "C", "o", "n", "t", "e", "n", "t", "-", "L", "e", "n", "g", "t",
       "h", ":", " ", "5" >>

HostLine ==
    << "H", "o", "s", "t", ":", " ", "h" >>

RangeLine ==
    << "R", "a", "n", "g", "e", ":", " ", "r" >>

DateLine ==
    << "x", "-", "a", "m", "z", "-", "d", "a", "t", "e", ":", " ", "d" >>

MetaLine ==
    << "x", "-", "a", "m", "z", "-", "m", "e", "t", "a", "-", "a", ":",
       " ", "1", " ", "\r", "\n", " ", " ", "2" >>

MetaAgainLine ==
    << "x", "-", "a", "m", "z", "-", "m", "e", "t", "a", "-", "a", ":",
       " ", "3" >>

SampleLines ==
    { ContentLengthLine, HostLine, RangeLine, DateLine, MetaLine,
      MetaAgainLine }

\* Most header lines in a list handed to canonicalize_headers.
MaxHeaders == 3

\* The header lists: up to MaxHeaders different lines in any order.
HeaderLists ==
    { hs \in UNION { [ 1 .. n -> SampleLines ] : n \in 1 .. MaxHeaders } :
        \A i, j \in DOMAIN hs : (i # j) => (hs[i] # hs[j]) }

\* canonicalize_headers applied to a header list.
ApplyCanonicalize ==
    /\ pure = NoPure
    /\ \E hs \in HeaderLists :
           pure' = [ fn |-> "canonicalize_headers", headers |-> hs,
                     out |-> canonicalize_headers(hs) ]
    /\ UNCHANGED << requestStackG, requestStackCountG, stackIndex, verifyPeer,
                    req, context, pc, request, params, obs, fin, serial, mem >>

\* ---- setup_curl: the header list
\* The values of the standard header fields when they are not empty, in
\* the order setup_curl appends them: hostHeader, cacheControlHeader,
\* contentTypeHeader, md5Header, contentDispositionHeader,
\* contentEncodingHeader, expiresHeader, ifModifiedSinceHeader,
\* ifUnmodifiedSinceHeader, ifMatchHeader, ifNoneMatchHeader, rangeHeader.
StandardLines ==
    <<
       << "H", "o", "s", "t", ":", " ", "h" >>,
       << "C", "a", "c", "h", "e", "-", "C", "o", "n", "t", "r", "o", "l",
          ":", " ", "c" >>,
       << "C", "o", "n", "t", "e", "n", "t", "-", "T", "y", "p", "e", ":",
          " ", "t" >>,
       << "C", "o", "n", "t", "e", "n", "t", "-", "M", "D", "5", ":", " ",
          "m" >>,
       << "C", "o", "n", "t", "e", "n", "t", "-", "D", "i", "s", "p", "o",
          "s", "i", "t", "i", "o", "n", ":", " ", "d" >>,
       << "C", "o", "n", "t", "e", "n", "t", "-", "E", "n", "c", "o", "d",
          "i", "n", "g", ":", " ", "e" >>,
       << "E", "x", "p", "i", "r", "e", "s", ":", " ", "x" >>,
       << "I", "f", "-", "M", "o", "d", "i", "f", "i", "e", "d", "-", "S",
          "i", "n", "c", "e", ":", " ", "s" >>,
       << "I", "f", "-", "U", "n", "m", "o", "d", "i", "f", "i", "e", "d",
          "-", "S", "i", "n", "c", "e", ":", " ", "u" >>,
       << "I", "f", "-", "M", "a", "t", "c", "h", ":", " ", "a" >>,
       << "I", "f", "-", "N", "o", "n", "e", "-", "M", "a", "t", "c", "h",
          ":", " ", "n" >>,
       << "R", "a", "n", "g", "e", ":", " ", "r" >>
    >>

\* values->authorizationHeader as compose_auth_header writes it under
\* signature V2.
AuthorizationV2Line ==
    << "A", "u", "t", "h", "o", "r", "i", "z", "a", "t", "i", "o", "n",
       ":", " ", "A", "W", "S", " ", "k", ":", "s" >>

\* The start of the header compose_auth4_header composes, up to the signed
\* headers.
AuthorizationV4Start ==
    << "A", "u", "t", "h", "o", "r", "i", "z", "a", "t", "i", "o", "n",
       ":", " ", "A", "W", "S", "4", "-", "H", "M", "A", "C", "-", "S",
       "H", "A", "2", "5", "6", " ", "S", "i", "g", "n", "e", "d", "H",
       "e", "a", "d", "e", "r", "s", "=" >>

ContentLengthStart ==
    << "C", "o", "n", "t", "e", "n", "t", "-", "L", "e", "n", "g", "t",
       "h", ":", " " >>

TransferEncodingLine ==
    << "T", "r", "a", "n", "s", "f", "e", "r", "-", "E", "n", "c", "o",
       "d", "i", "n", "g", ":" >>

\* curl_slist_append(list, text): the list with the text at its end.
curl_slist_append(list, text) == Append(list, text)

\* append_standard_header(fieldName), for the fields in the order given.
RECURSIVE append_standard_header(_, _)
append_standard_header(headers, fields) ==
    IF fields = << >> THEN headers
    ELSE append_standard_header(
             IF Head(fields) # << >>
             THEN curl_slist_append(headers, Head(fields))
             ELSE headers,
             Tail(fields))

RECURSIVE AppendLines(_, _)
AppendLines(headers, lines) ==
    IF lines = << >> THEN headers
    ELSE AppendLines(curl_slist_append(headers, Head(lines)), Tail(lines))

\* The first header of the list: Content-Length for PUT and POST,
\* Transfer-Encoding for COPY.
FirstHeaders(type, totalSize) ==
    IF type \in { "PUT", "POST" }
    THEN << ContentLengthStart \o FormatUnsigned(totalSize) >>
    ELSE IF type = "COPY" THEN << TransferEncodingLine >>
    ELSE << >>

\* compose_auth4_header(request, params, values): the header is composed
\* from the signed headers of the list and appended with
\* curl_slist_append(request->headers, authHeader), whose result is not
\* stored: an empty list stays empty.
compose_auth4_header(headers) ==
    IF headers = << >> THEN headers
    ELSE curl_slist_append(
             headers,
             AuthorizationV4Start \o canonicalize_headers(headers).signedHeaders)

\* A setup_curl that appends the V2 Authorization header after the x-amz-
\* headers.
HeaderListAuthorizationLast(version, type, totalSize, values) ==
    LET A == append_standard_header(FirstHeaders(type, totalSize), values.standard)
        C == AppendLines(A, values.amzHeaders)
    IN  IF version = "S3SignatureV4" THEN compose_auth4_header(C)
        ELSE append_standard_header(C, << values.authorizationHeader >>)

\* setup_curl, the header list: the first header, the standard headers
\* that are not empty, under V2 the Authorization header, the x-amz-
\* headers, under V4 the header of compose_auth4_header.
HeaderList(version, type, totalSize, values) ==
    LET A == append_standard_header(FirstHeaders(type, totalSize), values.standard)
        B == IF version = "S3SignatureV2"
             THEN append_standard_header(A, << values.authorizationHeader >>)
             ELSE A
        C == AppendLines(B, values.amzHeaders)
    IN  IF version = "S3SignatureV4" THEN compose_auth4_header(C) ELSE C

\* The sets of standard fields that are not empty: none, any one, any two
\* next to each other, all.
FilledFields ==
    { F \in SUBSET DOMAIN StandardLines :
        \/ F = DOMAIN StandardLines
        \/ \E i \in DOMAIN StandardLines : F \subseteq { i, i + 1 } }

\* The x-amz- headers: x-amz-date always, others after it.
AmzHeaderLists == { << DateLine >>, << DateLine, MetaLine >> }

\* The header list of setup_curl for either signature version, every kind
\* of request and the values drawn.
ApplyHeaderList ==
    /\ pure = NoPure
    /\ \E version \in { "S3SignatureV2", "S3SignatureV4" },
          type \in { "GET", "PUT", "COPY" }, F \in FilledFields,
          amz \in AmzHeaderLists :
           LET values == [ standard |-> [ i \in DOMAIN StandardLines |->
                                            IF i \in F THEN StandardLines[i]
                                            ELSE << >> ],
                           amzHeaders |-> amz,
                           authorizationHeader |->
                               IF version = "S3SignatureV2"
                               THEN AuthorizationV2Line ELSE << >> ]
               totalSize == << 0, 0, 0, 5 >>
           IN  pure' = [ fn |-> "setup_curl", version |-> version,
                         type |-> type, values |-> values,
                         headers |-> HeaderList(version, type, totalSize, values) ]
    /\ UNCHANGED << requestStackG, requestStackCountG, stackIndex, verifyPeer,
                    req, context, pc, request, params, obs, fin, serial, mem >>

\* ---- the sorts
\* x-amz- lines as compose_amz_headers writes them: two names that occur
\* once, one name that occurs with three values.
AclLine ==
    << "x", "-", "a", "m", "z", "-", "a", "c", "l", ":", " ", "p" >>

MetaFirstLine ==
    << "x", "-", "a", "m", "z", "-", "m", "e", "t", "a", "-", "a", ":",
       " ", "1" >>

MetaLastLine ==
    << "x", "-", "a", "m", "z", "-", "m", "e", "t", "a", "-", "a", ":",
       " ", "2" >>

AmzLines == { AclLine, DateLine, MetaFirstLine, MetaAgainLine, MetaLastLine }

\* Query parameters: names with and without a value, a name that occurs
\* with two values, a name that starts another.
QueryParams ==
    { << "a", "=", "1" >>, << "a", "=", "0" >>, << "a", "b", "=", "1" >>,
      << "b" >>, << "B", "=", "2" >> }

\* The lists of up to MaxHeaders different entries of a set, in any order.
ListsOf(S) ==
    { hs \in UNION { [ 1 .. n -> S ] : n \in 1 .. MaxHeaders } :
        \A i, j \in DOMAIN hs : (i # j) => (hs[i] # hs[j]) }

\* A sort applied to a list: header_gnome_sort to x-amz- lines,
\* general_gnome_sort with headerle_nocase to header lines and with paramle
\* to query parameters.
ApplySort ==
    /\ pure = NoPure
    /\ \E less \in LessFuncs \cup { "headerle" } :
           \E ps \in ListsOf(CASE less = "headerle" -> AmzLines
                               [] less = "paramle" -> QueryParams
                               [] OTHER -> SampleLines) :
               pure' = [ fn |-> "gnome_sort", less |-> less, params |-> ps,
                         out |-> IF less = "headerle"
                                 THEN header_gnome_sort(ps)
                                 ELSE general_gnome_sort(ps, less) ]
    /\ UNCHANGED << requestStackG, requestStackCountG, stackIndex, verifyPeer,
                    req, context, pc, request, params, obs, fin, serial, mem >>

\* ---- canonicalize_amz_headers
\* compose_amz_headers leaves the lines one after the other in
\* values->amzHeadersRaw, each followed by its terminator.
RECURSIVE AmzHeadersRaw(_)
AmzHeadersRaw(lines) ==
    IF lines = << >> THEN << >>
    ELSE Head(lines) \o << Nul >> \o AmzHeadersRaw(Tail(lines))

\* values->amzHeaders: the k-th entry points at the k-th line in
\* amzHeadersRaw, that is at the characters from the start of the line to
\* the end of what was written.
AmzHeaders(lines) ==
    [ k \in DOMAIN lines |->
        AmzHeadersRaw(SubSeq(lines, k, Len(lines))) ]

\* while (*c != ' ') *buffer++ = *c++, from the j-th character of header:
\* the place of the space, or past what was written when there is none.
RECURSIVE SpaceFrom(_, _)
SpaceFrom(header, j) ==
    IF (j > Len(header)) \/ (header[j] = " ") THEN j
    ELSE SpaceFrom(header, j + 1)

RECURSIVE SkipBlanksFrom(_, _)
SkipBlanksFrom(header, j) ==
    IF is_blank(CharAt(header, j)) THEN SkipBlanksFrom(header, j + 1) ELSE j

\* The copy of the value from the j-th character of header into buffer,
\* "\r\n" and the blanks around it folded out.
RECURSIVE AmzCopyValue(_, _, _)
AmzCopyValue(header, j, buffer) ==
    IF CharAt(header, j) = Nul THEN buffer
    ELSE IF /\ CharAt(header, j) = "\r"
            /\ CharAt(header, j + 1) = "\n"
            /\ is_blank(CharAt(header, j + 2))
    THEN AmzCopyValue(header, SkipBlanksFrom(header, j + 3),
                      DropTrailingBlanks(buffer))
    ELSE AmzCopyValue(header, j + 1, Append(buffer, header[j]))

\* The loop over sortedHeaders from the i-th on.  overrun: the search for
\* the space of a line went past what compose_amz_headers wrote.
RECURSIVE AmzLinesFrom(_, _, _, _, _)
AmzLinesFrom(sortedHeaders, i, buffer, lastHeaderLen, overrun) ==
    IF i > Len(sortedHeaders)
    THEN [ buffer |-> buffer, overrun |-> overrun ]
    ELSE LET header == sortedHeaders[i]
             same == /\ i > 1
                     /\ strncmp(header, sortedHeaders[i - 1], lastHeaderLen) = 0
             space == SpaceFrom(header, 1)
             start == IF same
                      THEN SubSeq(buffer, 1, Len(buffer) - 1) \o << "," >>
                      ELSE buffer \o SubSeq(header, 1, space - 1)
             len == IF same THEN lastHeaderLen ELSE space - 1
         IN  AmzLinesFrom(sortedHeaders, i + 1,
                          Append(AmzCopyValue(header, len + 2, start), "\n"),
                          len,
                          overrun \/ (~same /\ space > Len(header)))

\* canonicalize_amz_headers(values): values->canonicalizedAmzHeaders.
canonicalize_amz_headers(amzHeaders) ==
    AmzLinesFrom(header_gnome_sort(amzHeaders), 1, << >>, 0, FALSE)

\* The orders in which the same lines can be given.
Reorderings(lines) ==
    { other \in ListsOf(AmzLines \cup { MetaLine }) :
        /\ Len(other) = Len(lines)
        /\ { other[k] : k \in DOMAIN other } = { lines[k] : k \in DOMAIN lines } }

\* canonicalize_amz_headers applied to the same x-amz- lines given in two
\* orders.
ApplyAmzCanonicalize ==
    /\ pure = NoPure
    /\ \E lines \in ListsOf(AmzLines \cup { MetaLine }) :
           \E other \in Reorderings(lines) :
               pure' = [ fn |-> "canonicalize_amz_headers",
                         lines |-> lines,
                         out |-> canonicalize_amz_headers(AmzHeaders(lines)),
                         other |-> other,
                         outOther |->
                             canonicalize_amz_headers(AmzHeaders(other)) ]
    /\ UNCHANGED << requestStackG, requestStackCountG, stackIndex, verifyPeer,
                    req, context, pc, request, params, obs, fin, serial, mem >>

\* ---- canonicalize_query_params
\* string_append_char(buf, maxlen, plen, c), buf holding its *plen
\* characters.
string_append_char(buf, maxlen, c) ==
    IF Len(buf) >= maxlen - 1
    THEN [ status |-> "S3StatusUriTooLong", buf |-> buf ]
    ELSE [ status |-> "S3StatusOK", buf |-> Append(buf, c) ]

\* string_append_params, the copy of one parameter from its j-th character
\* to its '&' or its end, then the '=' of a parameter without one.
RECURSIVE AppendParamFrom(_, _, _, _, _)
AppendParamFrom(buf, maxlen, param, j, hasValue) ==
    IF CharAt(param, j) \in { "&", Nul }
    THEN IF hasValue THEN [ status |-> "S3StatusOK", buf |-> buf ]
         ELSE LET r == string_append_char(buf, maxlen, "=")
              IN  IF r.status # "S3StatusOK"
                  THEN [ status |-> "S3StatusQueryParamsTooLong", buf |-> buf ]
                  ELSE r
    ELSE LET r == string_append_char(buf, maxlen, param[j])
         IN  IF r.status # "S3StatusOK"
             THEN [ status |-> "S3StatusQueryParamsTooLong", buf |-> buf ]
             ELSE AppendParamFrom(r.buf, maxlen, param, j + 1,
                                  hasValue \/ (param[j] = "="))

\* string_append_params(buf, maxlen, plen, params, count), from the i-th
\* parameter on.
RECURSIVE AppendParamsFrom(_, _, _, _)
AppendParamsFrom(buf, maxlen, ps, i) ==
    IF i > Len(ps) THEN [ status |-> "S3StatusOK", buf |-> buf ]
    ELSE LET sep == IF i > 1 THEN string_append_char(buf, maxlen, "&")
                    ELSE [ status |-> "S3StatusOK", buf |-> buf ]
         IN  IF sep.status # "S3StatusOK"
             THEN [ status |-> "S3StatusQueryParamsTooLong", buf |-> buf ]
             ELSE LET r == AppendParamFrom(sep.buf, maxlen, ps[i], 1, FALSE)
                  IN  IF r.status # "S3StatusOK" THEN r
                      ELSE AppendParamsFrom(r.buf, maxlen, ps, i + 1)

string_append_params(buf, maxlen, ps) == AppendParamsFrom(buf, maxlen, ps, 1)

\* canonicalize_query_params, the loop that fills query_params from the
\* itr-th character of querys on: a parameter is the text from its first
\* character to the end of querys.  bad: an '&' is followed by the end,
\* by '&' or by '='.
RECURSIVE QueryParamsFrom(_, _, _)
QueryParamsFrom(querys, itr, query_params) ==
    IF CharAt(querys, itr) = Nul THEN [ bad |-> FALSE, params |-> query_params ]
    ELSE IF querys[itr] = "&"
    THEN IF CharAt(querys, itr + 1) \in { Nul, "&", "=" }
         THEN [ bad |-> TRUE, params |-> query_params ]
         ELSE QueryParamsFrom(querys, itr + 2,
                  Append(query_params, SubSeq(querys, itr + 1, Len(querys))))
    ELSE QueryParamsFrom(querys, itr + 1, query_params)

\* canonicalize_query_params(buf, maxlen, plen, querys) into an empty buf.
canonicalize_query_params(maxlen, querys) ==
    LET found == QueryParamsFrom(querys, 1, << querys >>)
    IN  IF found.bad THEN [ status |-> "S3StatusBadMetaData", buf |-> << >> ]
        ELSE LET r == string_append_params(
                          << >>, maxlen,
                          general_gnome_sort(found.params, "paramle"))
             IN  IF r.status # "S3StatusOK" THEN r
                 ELSE string_append_char(r.buf, maxlen, "\n")

\* The query string of a list of parameters.
RECURSIVE JoinParams(_)
JoinParams(ps) ==
    IF ps = << >> THEN << >>
    ELSE IF Len(ps) = 1 THEN Head(ps)
    ELSE Head(ps) \o << "&" >> \o JoinParams(Tail(ps))

\* Query strings that leave a parameter without a name.
BadQueries ==
    { << "a", "=", "1", "&" >>, << "a", "&", "&", "b" >>,
      << "a", "&", "=", "1" >> }

\* The sizes of buf: one that holds every canonical query string of the
\* inputs, one that does not.
MaxLens == { 6, 32 }

ApplyCanonicalizeQuery ==
    /\ pure = NoPure
    /\ \E maxlen \in MaxLens :
           \/ \E ps \in ListsOf(QueryParams) :
                  pure' = [ fn |-> "canonicalize_query_params",
                            params |-> ps, maxlen |-> maxlen,
                            out |-> canonicalize_query_params(
                                        maxlen, JoinParams(ps)) ]
           \/ \E querys \in BadQueries :
                  pure' = [ fn |-> "canonicalize_query_params",
                            params |-> << >>, maxlen |-> maxlen,
                            out |-> canonicalize_query_params(maxlen, querys) ]
    /\ UNCHANGED << requestStackG, requestStackCountG, stackIndex, verifyPeer,
                    req, context, pc, request, params, obs, fin, serial, mem >>

\* ---- compose_amz_headers
\* The number of metadata entries a request may carry, scaled down; the
\* arrays below are sized from it as in RequestComputedValues.
S3_MAX_METADATA_COUNT == 2

\* The entries of values->amzHeaders, and of sortedHeaders in
\* canonicalize_amz_headers.
AmzHeadersCapacity == S3_MAX_METADATA_COUNT + 2

SortedHeadersCapacity == S3_MAX_METADATA_COUNT

S3_METADATA_HEADER_NAME_PREFIX ==
    << "x", "-", "a", "m", "z", "-", "m", "e", "t", "a", "-" >>

AclFormat ==
    << "x", "-", "a", "m", "z", "-", "a", "c", "l", ":", " " >>

EncryptionLine ==
    << "x", "-", "a", "m", "z", "-", "s", "e", "r", "v", "e", "r", "-",
       "s", "i", "d", "e", "-", "e", "n", "c", "r", "y", "p", "t", "i",
       "o", "n", ":", " ", "A", "E", "S", "2", "5", "6" >>

DateFormat ==
    << "x", "-", "a", "m", "z", "-", "d", "a", "t", "e", ":", " " >>

ContentSha256Format ==
    << "x", "-", "a", "m", "z", "-", "c", "o", "n", "t", "e", "n", "t",
       "-", "s", "h", "a", "2", "5", "6", ":", " " >>

UnsignedPayload ==
    << "x", "-", "a", "m", "z", "-", "c", "o", "n", "t", "e", "n", "t",
       "-", "s", "h", "a", "2", "5", "6", ":", " ", "U", "N", "S", "I",
       "G", "N", "E", "D", "-", "P", "A", "Y", "L", "O", "A", "D" >>

CopySourceFormat ==
    << "x", "-", "a", "m", "z", "-", "c", "o", "p", "y", "-", "s", "o",
       "u", "r", "c", "e", ":", " ", "/" >>

CopySourceRangeFormat ==
    << "x", "-", "a", "m", "z", "-", "c", "o", "p", "y", "-", "s", "o",
       "u", "r", "c", "e", "-", "r", "a", "n", "g", "e", ":", " ", "b",
       "y", "t", "e", "s", "=" >>

MetadataDirectiveLine ==
    << "x", "-", "a", "m", "z", "-", "m", "e", "t", "a", "d", "a", "t",
       "a", "-", "d", "i", "r", "e", "c", "t", "i", "v", "e", ":", " ",
       "R", "E", "P", "L", "A", "C", "E" >>

SecurityTokenFormat ==
    << "x", "-", "a", "m", "z", "-", "s", "e", "c", "u", "r", "i", "t",
       "y", "-", "t", "o", "k", "e", "n", ":", " " >>

\* The while loop of headers_append: the spaces at the end of what was
\* written are dropped.
RECURSIVE TrimSpaces(_)
TrimSpaces(raw) ==
    IF (Len(raw) > 0) /\ (raw[Len(raw)] = " ")
    THEN TrimSpaces(SubSeq(raw, 1, Len(raw) - 1))
    ELSE raw

\* headers_append(isNewHeader, format, ...), text being what the format
\* prints and size being sizeof(values->amzHeadersRaw).  v holds the
\* status, amzHeadersRaw up to len, and in amzHeaders the places the
\* pointers point at, entries past the capacity of the array included.
headers_append(v, size, isNewHeader, text) ==
    IF v.status # "S3StatusOK" THEN v
    ELSE LET amzHeaders == IF isNewHeader
                           THEN Append(v.amzHeaders, Len(v.amzHeadersRaw) + 1)
                           ELSE v.amzHeaders
         IN  IF Len(v.amzHeadersRaw) + Len(text) >= size
             THEN [ v EXCEPT !.status = "S3StatusMetaDataHeadersTooLong",
                             !.amzHeaders = amzHeaders ]
             ELSE [ v EXCEPT !.amzHeaders = amzHeaders,
                             !.amzHeadersRaw =
                                 Append(TrimSpaces(v.amzHeadersRaw \o text), Nul) ]

\* header_name_tolower_copy(str, l).
header_name_tolower_copy(v, size, str) ==
    IF v.status # "S3StatusOK" THEN v
    ELSE LET amzHeaders == Append(v.amzHeaders, Len(v.amzHeadersRaw) + 1)
         IN  IF Len(v.amzHeadersRaw) + Len(str) >= size
             THEN [ v EXCEPT !.status = "S3StatusMetaDataHeadersTooLong",
                             !.amzHeaders = amzHeaders ]
             ELSE [ v EXCEPT !.amzHeaders = amzHeaders,
                             !.amzHeadersRaw = v.amzHeadersRaw \o LowerText(str) ]

\* The loop over properties->metaData from the i-th entry on, for names
\* that fit headerName and are not the tagging directive.
RECURSIVE MetaDataFrom(_, _, _, _)
MetaDataFrom(v, size, metaData, i) ==
    IF (i > Len(metaData)) \/ (v.status # "S3StatusOK") THEN v
    ELSE MetaDataFrom(
             headers_append(
                 header_name_tolower_copy(
                     v, size,
                     S3_METADATA_HEADER_NAME_PREFIX \o metaData[i].name),
                 size, FALSE, << ":", " " >> \o metaData[i].value),
             size, metaData, i + 1)

Zero64 == << 0, 0, 0, 0 >>

\* A pointer that may be null: no element for NULL, else the one element
\* it points at.
NullPointer == << >>

PointerTo(x) == << x >>

\* compose_amz_headers(params, values), date being what strftime prints.
compose_amz_headers(p, size, date) ==
    LET hasProperties == p.putProperties # NullPointer
        properties == p.putProperties[1]
        v0 == [ status |-> "S3StatusOK", amzHeaders |-> << >>,
                amzHeadersRaw |-> << >> ]
        v1 == IF ~hasProperties THEN v0
              ELSE MetaDataFrom(v0, size, properties.metaData, 1)
        v2 == IF (~hasProperties) \/ (properties.cannedAclString = NullPointer)
              THEN v1
              ELSE headers_append(v1, size, TRUE,
                                  AclFormat \o properties.cannedAclString[1])
        v3 == IF hasProperties /\ properties.useServerSideEncryption
              THEN headers_append(v2, size, TRUE, EncryptionLine)
              ELSE v2
        v4 == headers_append(v3, size, TRUE, DateFormat \o date)
        v5 == IF p.signatureVersionG # "S3SignatureV4" THEN v4
              ELSE IF hasProperties /\ (properties.md5 # NullPointer)
                      /\ (properties.md5[1].md5 # << >>)
              THEN headers_append(v4, size, TRUE,
                                  ContentSha256Format \o properties.md5[1].sha256)
              ELSE headers_append(v4, size, TRUE, UnsignedPayload)
        copy == p.httpRequestType = "HttpRequestTypeCOPY"
        v6 == IF copy /\ (p.copySourceBucketName # NullPointer)
                      /\ (p.copySourceBucketName[1] # << >>)
                      /\ (p.copySourceKey # NullPointer)
                      /\ (p.copySourceKey[1] # << >>)
              THEN headers_append(v5, size, TRUE,
                                  CopySourceFormat \o p.copySourceBucketName[1]
                                      \o << "/" >> \o p.copySourceKey[1])
              ELSE v5
        v7 == IF copy /\ ~IsNegative(p.byteCount) /\ ~IsZero(p.byteCount)
              THEN headers_append(
                       v6, size, TRUE,
                       CopySourceRangeFormat \o FormatSigned(p.startByte)
                           \o << "-" >>
                           \o FormatSigned(IF p.startByte = Zero64
                                           THEN p.byteCount
                                           ELSE Increment(p.startByte)))
              ELSE v6
        v8 == IF copy /\ hasProperties
              THEN headers_append(v7, size, TRUE, MetadataDirectiveLine)
              ELSE v7
    IN  IF p.securityToken # NullPointer
        THEN headers_append(v8, size, TRUE,
                            SecurityTokenFormat \o p.securityToken[1])
        ELSE v8

\* Metadata entries: a value, a name in capitals and a value that ends in
\* a space, an empty value, a value of spaces only.
MetaDataEntries ==
    { [ name |-> << "a" >>, value |-> << "1" >> ],
      [ name |-> << "B" >>, value |-> << "2", " " >> ],
      [ name |-> << "c" >>, value |-> << >> ],
      [ name |-> << "d" >>, value |-> << " ", " " >> ] }

MetaDataLists ==
    UNION { [ 1 .. n -> MetaDataEntries ] : n \in 0 .. S3_MAX_METADATA_COUNT }

PublicRead ==
    << "p", "u", "b", "l", "i", "c", "-", "r", "e", "a", "d" >>

\* properties->md5 of a V4 request: the MD5 text, its terminator and the
\* SHA-256 text after it.
Md5s == { NullPointer, PointerTo([ md5 |-> << >>, sha256 |-> << >> ]),
          PointerTo([ md5 |-> << "m" >>, sha256 |-> << "h" >> ]) }

PutPropertiesSet ==
    { NullPointer } \cup
    { PointerTo(properties) :
        properties \in [ metaData : MetaDataLists,
                         cannedAclString : { NullPointer, PointerTo(PublicRead) },
                         useServerSideEncryption : BOOLEAN,
                         md5 : Md5s ] }

\* The copy source of a COPY request: none, the whole object, its first
\* byte.
CopySources ==
    { [ copySourceBucketName |-> NullPointer, copySourceKey |-> NullPointer,
        startByte |-> Zero64, byteCount |-> Zero64 ],
      [ copySourceBucketName |-> PointerTo(<< "b" >>),
        copySourceKey |-> PointerTo(<< "k" >>),
        startByte |-> Zero64, byteCount |-> Zero64 ],
      [ copySourceBucketName |-> PointerTo(<< "b" >>),
        copySourceKey |-> PointerTo(<< "k" >>),
        startByte |-> Zero64, byteCount |-> << 0, 0, 0, 1 >> ] }

AmzParams ==
    { [ putProperties |-> pp, signatureVersionG |-> sig,
        httpRequestType |-> type,
        copySourceBucketName |-> src.copySourceBucketName,
        copySourceKey |-> src.copySourceKey,
        startByte |-> src.startByte, byteCount |-> src.byteCount,
        securityToken |-> token ] :
        pp \in PutPropertiesSet,
        sig \in { "S3SignatureV2", "S3SignatureV4" },
        type \in { "HttpRequestTypePUT", "HttpRequestTypeCOPY" },
        src \in CopySources,
        token \in { NullPointer, PointerTo(<< "t" >>) } }

\* sizeof(values->amzHeadersRaw): one that holds the lines of the inputs,
\* one that holds the x-amz-date line and little else.
RawSizes == { 32, 512 }

\* The start of request_perform: compose_amz_headers, and under signature
\* V2 canonicalize_amz_headers, which copies amzHeadersCount pointers into
\* sortedHeaders.  A store past the end of amzHeaders or of sortedHeaders
\* leaves the outcome to the build: defined tells whether the memory after
\* the array took the store without harm, and the fields are then what the
\* code computes.
ApplyComposeAmz ==
    /\ pure = NoPure
    /\ \E p \in AmzParams, size \in RawSizes, layout \in BOOLEAN :
       \E v \in { compose_amz_headers(p, size, << "d" >>) } :
           LET amzHeadersCount == Len(v.amzHeaders)
               v2 == (v.status = "S3StatusOK")
                         /\ (p.signatureVersionG = "S3SignatureV2")
               copied == IF v2 THEN amzHeadersCount ELSE 0
               past == \/ amzHeadersCount > AmzHeadersCapacity
                       \/ copied > SortedHeadersCapacity
           IN  /\ layout \/ past
               /\ pure' = [ fn |-> "compose_amz_headers",
                            params |-> p, size |-> size,
                            defined |-> layout,
                            status |-> v.status,
                            amzHeaders |-> v.amzHeaders,
                            amzHeadersCount |-> amzHeadersCount,
                            amzHeadersRaw |-> v.amzHeadersRaw,
                            copied |-> copied,
                            canonicalizedAmzHeaders |->
                                IF v2
                                THEN canonicalize_amz_headers(
                                         [ k \in DOMAIN v.amzHeaders |->
                                             SubSeq(v.amzHeadersRaw,
                                                    v.amzHeaders[k],
                                                    Len(v.amzHeadersRaw)) ])
                                ELSE [ buffer |-> << >>, overrun |-> FALSE ] ]
    /\ UNCHANGED << requestStackG, requestStackCountG, stackIndex, verifyPeer,
                    req, context, pc, request, params, obs, fin, serial, mem >>

\* The composition of the x-amz- lines of a request.
NextCompose == ApplyComposeAmz

SpecCompose == Init /\ [][NextCompose]_vars

\* ---- ssl_verify_callback
\* strlen(str) of the data of an ASN1 string or of a host name: the
\* characters before the first NUL.
RECURSIVE StrLenFrom(_, _)
StrLenFrom(str, i) ==
    IF CharAt(str, i) = Nul THEN i - 1 ELSE StrLenFrom(str, i + 1)

strlen(str) == StrLenFrom(str, 1)

strcasecmp(s1, s2) == strncasecmp(s1, s2, strlen(s1) + strlen(s2) + 1)

\* strchr(str, c): the text from the first c of str on, no pointer when
\* there is none.
RECURSIVE strchr(_, _)
strchr(str, c) ==
    IF CharAt(str, 1) = Nul THEN NullPointer
    ELSE IF Head(str) = c THEN PointerTo(str)
    ELSE strchr(Tail(str), c)

\* matches_subject_alt_name, the loop over san_names from the i-th entry.
RECURSIVE SanNamesFrom(_, _, _)
SanNamesFrom(hostname, san_names, i) ==
    IF i > Len(san_names) THEN -1
    ELSE LET current_name == san_names[i]
             dns_name == current_name.data
             dns_len == strlen(dns_name)
             target_suffix == strchr(hostname, ".")
         IN  IF current_name.type # "GEN_DNS"
             THEN SanNamesFrom(hostname, san_names, i + 1)
             ELSE IF Len(dns_name) # dns_len
             THEN SanNamesFrom(hostname, san_names, i + 1)
             ELSE IF /\ strlen(hostname) = dns_len
                     /\ strncasecmp(hostname, dns_name, strlen(hostname)) = 0
             THEN 1
             ELSE IF /\ dns_len > 2
                     /\ dns_name[1] = "*"
                     /\ dns_name[2] = "."
                     /\ target_suffix # NullPointer
                     /\ strcasecmp(target_suffix[1], Tail(dns_name)) = 0
             THEN 1
             ELSE SanNamesFrom(hostname, san_names, i + 1)

\* matches_subject_alt_name(hostname, server_cert) answering 0 also when
\* the names of the extension do not match.
matches_subject_alt_name_zero(hostname, server_cert) ==
    IF server_cert.san_names = NullPointer THEN 0
    ELSE IF SanNamesFrom(hostname, server_cert.san_names[1], 1) = 1 THEN 1
    ELSE 0

\* matches_subject_alt_name(hostname, server_cert).
matches_subject_alt_name(hostname, server_cert) ==
    IF server_cert.san_names = NullPointer THEN 0
    ELSE SanNamesFrom(hostname, server_cert.san_names[1], 1)

\* matches_common_name(hostname, server_cert); no common_name when the
\* subject has no CN or its entry or data cannot be had.
matches_common_name(hostname, server_cert) ==
    IF server_cert.common_name = NullPointer THEN -1
    ELSE LET common_name_str == server_cert.common_name[1]
         IN  IF Len(common_name_str) # strlen(common_name_str) THEN -1
             ELSE IF strcasecmp(hostname, common_name_str) = 0 THEN 1
             ELSE -1

\* ssl_verify_callback(preverify_ok, x509_context): what it returns and
\* the error it sets in the context, if any.
ssl_verify_callback(preverify_ok, depth, host, peer_cert) ==
    IF preverify_ok = 0 THEN [ ret |-> preverify_ok, error |-> "unchanged" ]
    ELSE IF depth # 0 THEN [ ret |-> preverify_ok, error |-> "unchanged" ]
    ELSE LET san == matches_subject_alt_name(host, peer_cert)
             match == IF san = 0 THEN matches_common_name(host, peer_cert)
                      ELSE san
         IN  IF match # 1
             THEN [ ret |-> 0, error |-> "X509_V_ERR_APPLICATION_VERIFICATION" ]
             ELSE [ ret |-> 1, error |-> "X509_V_OK" ]

\* Host names, and the data of the names of a certificate: the host name
\* in both cases, a wildcard, another host, a wildcard with nothing after
\* it, a name with an embedded NUL.
HostNames == { << "a", ".", "b" >>, << "b" >> }

CertNames ==
    { << "a", ".", "b" >>, << "A", ".", "B" >>, << "*", ".", "b" >>,
      << "c", ".", "b" >>, << "*", "." >>, << "b", Nul, "c" >> }

GeneralNames == [ type : { "GEN_DNS", "GEN_IPADD" }, data : CertNames ]

MaxSanNames == 2

SanNames ==
    { NullPointer } \cup
    { PointerTo(names) :
        names \in UNION { [ 1 .. n -> GeneralNames ] : n \in 0 .. MaxSanNames } }

Certificates ==
    [ san_names : SanNames,
      common_name : { NullPointer } \cup { PointerTo(n) : n \in CertNames } ]

\* The depths of a chain: the leaf and the certificate that signed it.
Depths == { 0, 1 }

ApplySslVerify ==
    /\ pure = NoPure
    /\ \E preverify_ok \in { 0, 1 }, depth \in Depths, host \in HostNames,
          peer_cert \in Certificates :
           pure' = [ fn |-> "ssl_verify_callback",
                     preverify_ok |-> preverify_ok, depth |-> depth,
                     host |-> host, peer_cert |-> peer_cert,
                     out |-> ssl_verify_callback(preverify_ok, depth, host,
                                                 peer_cert) ]
    /\ UNCHANGED << requestStackG, requestStackCountG, stackIndex, verifyPeer,
                    req, context, pc, request, params, obs, fin, serial, mem >>

\* ---- compose_uri
\* uri_append(fmt, ...), text being what the format prints: snprintf
\* writes what fits bufferSize - len with its terminator, len counts all
\* of text.  u holds the status, the characters in buffer before the
\* terminator, and len.
uri_append(u, bufferSize, text) ==
    IF u.status # "S3StatusOK" THEN u
    ELSE LET room == bufferSize - u.len - 1
             written == IF Len(text) <= room THEN text ELSE SubSeq(text, 1, room)
             len == u.len + Len(text)
         IN  [ status |-> IF len >= bufferSize THEN "S3StatusUriTooLong"
                          ELSE "S3StatusOK",
               buffer |-> u.buffer \o written,
               len |-> len ]

defaultHostNameG == << "s", "3" >>

\* compose_uri, what follows the scheme for a bucket in a virtual host
\* whether or not its name has a '.'.
HostAndBucketAnyName(bucketContext, hostName) ==
    IF (bucketContext.bucketName # NullPointer)
           /\ (bucketContext.bucketName[1] # << >>)
    THEN IF bucketContext.uriStyle = "S3UriStyleVirtualHost"
         THEN bucketContext.bucketName[1] \o << "." >> \o hostName
         ELSE hostName \o << "/" >> \o bucketContext.bucketName[1]
    ELSE hostName

\* compose_uri, what follows the scheme: the host, with the bucket before
\* it or after it where the style puts it.
HostAndBucket(bucketContext, hostName) ==
    IF (bucketContext.bucketName # NullPointer)
           /\ (bucketContext.bucketName[1] # << >>)
    THEN IF bucketContext.uriStyle = "S3UriStyleVirtualHost"
         THEN IF strchr(bucketContext.bucketName[1], ".") = NullPointer
              THEN bucketContext.bucketName[1] \o << "." >> \o hostName
              ELSE hostName
         ELSE hostName \o << "/" >> \o bucketContext.bucketName[1]
    ELSE hostName

\* compose_uri(buffer, bufferSize, bucketContext, urlEncodedKey,
\* subResource, queryParams).
compose_uri(bufferSize, bucketContext, urlEncodedKey, subResource, queryParams) ==
    LET hostName == IF bucketContext.hostName # NullPointer
                    THEN bucketContext.hostName[1]
                    ELSE defaultHostNameG
        hasSub == (subResource # NullPointer) /\ (subResource[1] # << >>)
        u0 == [ status |-> "S3StatusOK", buffer |-> << >>, len |-> 0 ]
        u1 == uri_append(u0, bufferSize,
                         << "h", "t", "t", "p" >>
                             \o (IF bucketContext.protocol = "S3ProtocolHTTP"
                                 THEN << >> ELSE << "s" >>)
                             \o << ":", "/", "/" >>)
        u2 == uri_append(u1, bufferSize, HostAndBucket(bucketContext, hostName))
        u3 == uri_append(u2, bufferSize, << "/" >>)
        u4 == uri_append(u3, bufferSize, urlEncodedKey)
        u5 == IF hasSub
              THEN uri_append(u4, bufferSize, << "?" >> \o subResource[1])
              ELSE u4
    IN  IF queryParams # NullPointer
        THEN uri_append(u5, bufferSize,
                        (IF hasSub THEN << "&" >> ELSE << "?" >>)
                            \o queryParams[1])
        ELSE u5

BucketContexts ==
    [ protocol : { "S3ProtocolHTTP", "S3ProtocolHTTPS" },
      hostName : { NullPointer, PointerTo(<< "h" >>) },
      bucketName : { NullPointer, PointerTo(<< >>), PointerTo(<< "b" >>),
                     PointerTo(<< "b", ".", "c" >>) },
      uriStyle : { "S3UriStyleVirtualHost", "S3UriStylePath" } ]

\* The sizes of buffer: one that holds every URI of the inputs, two that
\* hold some, one that does not hold the scheme.
BufferSizes == { 4, 12, 16, 64 }

ApplyComposeUri ==
    /\ pure = NoPure
    /\ \E bufferSize \in BufferSizes, bucketContext \in BucketContexts,
          urlEncodedKey \in { << >>, << "k" >> },
          subResource \in { NullPointer, PointerTo(<< >>),
                            PointerTo(<< "a", "c", "l" >>) },
          queryParams \in { NullPointer, PointerTo(<< "q", "=", "1" >>) } :
           pure' = [ fn |-> "compose_uri", bufferSize |-> bufferSize,
                     bucketContext |-> bucketContext,
                     urlEncodedKey |-> urlEncodedKey,
                     subResource |-> subResource,
                     queryParams |-> queryParams,
                     out |-> compose_uri(bufferSize, bucketContext,
                                         urlEncodedKey, subResource,
                                         queryParams) ]
    /\ UNCHANGED << requestStackG, requestStackCountG, stackIndex, verifyPeer,
                    req, context, pc, request, params, obs, fin, serial, mem >>

\* ---- request_perform without a context, from the return of
\* curl_easy_perform on
\* The Requests curl_easy_perform may return with: the status the hooks
\* left, the headers done (and then the response code stored) or not, an
\* S3 error parsed or not.
PerformedRequests ==
    { [ BlankRequest EXCEPT !.status = st, !.errorParsed = ep,
                            !.propertiesCallbackMade = made,
                            !.propertiesCallback = cb,
                            !.httpResponseCode = code ] :
        st \in { "OK", "AbortedByCallback", "InternalError", "XmlParseFailure" },
        ep \in BOOLEAN, made \in BOOLEAN, cb \in BOOLEAN,
        code \in ResponseCodes }

ApplyEasyPerform ==
    /\ pure = NoPure
    /\ \E R \in PerformedRequests, cc \in CurlCodes :
           \E e \in InfoEnv(R) :
               /\ (~R.propertiesCallbackMade) => (R.httpResponseCode = 0)
               /\ (R.errorParsed \/ R.status = "XmlParseFailure")
                      => R.propertiesCallbackMade
               /\ pure' = [ fn |-> "request_perform", R |-> R, curl |-> cc,
                            infoOK |-> e.infoOK, code |-> e.code,
                            pret |-> e.pret,
                            mapped |-> EasyStatus(R, cc).status,
                            out |-> request_finish(EasyStatus(R, cc), e.infoOK,
                                                   e.code, e.pret) ]
    /\ UNCHANGED << requestStackG, requestStackCountG, stackIndex, verifyPeer,
                    req, context, pc, request, params, obs, fin, serial, mem >>

NextApply ==
    \/ ApplyEasyPerform
    \/ ApplyComposeUri
    \/ ApplySslVerify
    \/ ApplyCanonicalizeQuery
    \/ ApplyAmzCanonicalize
    \/ ApplySort
    \/ ApplyHeaderList
    \/ ApplyCanonicalize
    \/ ApplyFinish
    \/ ApplyEasyStatus
    \/ ApplyVerifyPeer
    \/ ApplyQueryString
    \/ ApplyWrite
    \/ ApplyRead

SpecApply == Init /\ [][NextApply]_vars

\* ------------------------------------------------ the lists of a Request

\* Most failures of request_get in one run.
MaxGetFailures == 2

\* A pointer to a curl_slist is "null", "live" (it points to an allocated
\* list), "freed" (it points to a list curl_slist_free_all has freed) or
\* "wild" (memory from malloc that was never assigned).  The error parser
\* is "wild", "initialized" (error_parser_initialize ran, its details are
\* those of the last response) or "deinitialized"; the HTTP handle is
\* "reset" (as curl_easy_init and curl_easy_reset leave it) or "set" (it
\* carries the options of a request).

\* malloc(sizeof(Request)) followed by curl_easy_init.
FreshRequest ==
    [ headers |-> "wild", connect_to_list |-> "wild", errorParser |-> "wild",
      curl |-> "reset" ]

\* A Request whose perform went through setup_curl with both lists.
UsedRequest ==
    [ headers |-> "live", connect_to_list |-> "live",
      errorParser |-> "initialized", curl |-> "set" ]

\* A request_deinitialize that does nothing.
request_deinitialize_skipped(L) == [ r |-> L, badFree |-> FALSE ]

\* request_deinitialize(request): curl_slist_free_all on each list pointer
\* that is not null (the pointer keeps its value), error_parser_deinitialize,
\* curl_easy_reset.  badFree: a pointer to no allocated list was freed.
request_deinitialize(L) ==
    [ r |-> [ L EXCEPT !.headers = IF @ = "null" THEN @ ELSE "freed",
                       !.connect_to_list = IF @ = "null" THEN @ ELSE "freed",
                       !.errorParser = "deinitialized",
                       !.curl = "reset" ],
      badFree |-> \/ L.headers \in { "freed", "wild" }
                  \/ L.connect_to_list \in { "freed", "wild" } ]

\* The places request_get may fail at once it has a Request: compose_uri
\* ("uri"); in setup_curl a curl_easy_setopt before the Connect-To list is
\* made ("early"), one between that and the first header ("connect_to"),
\* one after the headers ("late").
GetFailures == { "uri", "early", "connect_to", "late" }

\* What the bucket context and the computed values make setup_curl
\* allocate: a Connect-To list, a header list.
ListConfigs == [ connectTo : BOOLEAN, headers : BOOLEAN ]

\* setup_curl(request, params, values) up to the failing
\* curl_easy_setopt_safe, or to its end.
setup_curl(L, cfg, failAt) ==
    LET A == [ L EXCEPT !.curl = "set" ]
        B == IF cfg.connectTo THEN [ A EXCEPT !.connect_to_list = "live" ] ELSE A
        C == IF cfg.headers THEN [ B EXCEPT !.headers = "live" ] ELSE B
    IN  CASE failAt = "early" -> A
          [] failAt = "connect_to" -> B
          [] OTHER -> C

\* The lists a Request points to that are allocated.
LiveLists(L) ==
    (IF L.headers = "live" THEN 1 ELSE 0)
        + (IF L.connect_to_list = "live" THEN 1 ELSE 0)

\* request_get on the Request L (popped from the stack or fresh): the
\* popped one goes through request_deinitialize, headers and
\* connect_to_list are set to 0, then compose_uri and setup_curl run.  On
\* failure the handle is cleaned up and the Request freed as it is.
\*   overwritten: a pointer to an allocated list was set to 0
\*   lost: the allocated lists the freed Request pointed to
request_get(L, popped, cfg, failAt) ==
    LET D == IF popped THEN request_deinitialize(L)
             ELSE [ r |-> L, badFree |-> FALSE ]
        Z == [ D.r EXCEPT !.headers = "null", !.connect_to_list = "null" ]
        S == IF failAt = "uri" THEN Z ELSE setup_curl(Z, cfg, failAt)
    IN  [ r |-> IF failAt = "none"
                THEN [ S EXCEPT !.errorParser = "initialized" ]
                ELSE S,
          ok |-> failAt = "none",
          badFree |-> D.badFree,
          overwritten |-> LiveLists(D.r) > 0,
          lost |-> IF failAt = "none" THEN 0 ELSE LiveLists(S) ]

\* The lowest address no Request of the run is at.
MemMalloc ==
    CHOOSE r \in RequestIds \ DOMAIN mem.R :
        \A q \in RequestIds \ DOMAIN mem.R : r <= q

\* The state of a memory run: k Requests in the pool, each as its perform
\* left it, every thread outside request_perform, or in a full pool's case
\* possibly the first thread holding one more Request.
InitMem ==
    \E k \in PoolFills, h \in 0 .. 1 :
        /\ (h = 1) => (k = REQUEST_STACK_SIZE)
        /\ requestStackG = [ i \in StackSlots |-> IF i < k THEN i + 1 ELSE NULL ]
        /\ requestStackCountG = k
        /\ stackIndex = { }
        /\ verifyPeer = 0
        /\ req = << >>
        /\ context = [ requests |-> NULL, curlm |-> { } ]
        /\ pc = [ t \in Threads |-> "idle" ]
        /\ request = [ t \in Threads |-> NULL ]
        /\ params = [ t \in Threads |-> NoParams ]
        /\ obs = << >>
        /\ fin = NoCall
        /\ serial = NoSerial
        /\ pure = NoPure
        /\ mem = [ run |-> "up",
                   R |-> [ r \in 1 .. (k + h) |-> UsedRequest ],
                   held |-> [ t \in Threads |->
                                IF (h = 1) /\ (t = ContextThread)
                                THEN k + 1 ELSE NULL ],
                   lost |-> 0, failures |-> 0,
                   overwritten |-> FALSE, badFree |-> FALSE,
                   failed |-> "none", pushed |-> NULL ]

\* request_perform up to the return of request_get, which fails at failAt
\* or not at all ("none").
MemGet(t, cfg, failAt) ==
    /\ mem.run = "up"
    /\ mem.held[t] = NULL
    /\ LET pop == StackPop(requestStackCountG)
           r == IF pop.popped THEN requestStackG[pop.index] ELSE MemMalloc
           G == request_get(IF pop.popped THEN mem.R[r] ELSE FreshRequest,
                            pop.popped, cfg, failAt)
       IN  /\ (~G.ok) => (mem.failures < MaxGetFailures)
           /\ requestStackCountG' = pop.count
           /\ requestStackG' =
                  IF pop.popped
                  THEN [ requestStackG EXCEPT ![pop.index] = NULL ]
                  ELSE requestStackG
           /\ mem' = [ mem EXCEPT
                         !.R = IF G.ok THEN Put(@, r, G.r) ELSE Drop(@, r),
                         !.held[t] = IF G.ok THEN r ELSE NULL,
                         !.lost = @ + G.lost,
                         !.failures = IF G.ok THEN @ ELSE @ + 1,
                         !.overwritten = @ \/ G.overwritten,
                         !.badFree = @ \/ G.badFree,
                         !.failed = failAt,
                         !.pushed = NULL ]
    /\ UNCHANGED << stackIndex, verifyPeer, req, context, pc, request, params,
                    obs, fin, serial, pure >>

\* The perform of thread t is over: request_release, which pushes the
\* Request as it is or, the stack being full, destroys it
\* (request_deinitialize, curl_easy_cleanup, free).
MemRelease(t) ==
    /\ mem.run = "up"
    /\ mem.held[t] # NULL
    /\ LET r == mem.held[t]
           rel == request_release(requestStackG, requestStackCountG, r)
           D == request_deinitialize(mem.R[r])
       IN  /\ requestStackG' = rel.stack
           /\ requestStackCountG' = rel.count
           /\ mem' = [ mem EXCEPT
                         !.R = IF rel.destroy THEN Drop(@, r) ELSE @,
                         !.held[t] = NULL,
                         !.badFree = @ \/ (rel.destroy /\ D.badFree),
                         !.lost = IF rel.destroy THEN @ + LiveLists(D.r) ELSE @,
                         !.failed = "none",
                         !.pushed = IF rel.stored THEN r ELSE NULL ]
    /\ UNCHANGED << stackIndex, verifyPeer, req, context, pc, request, params,
                    obs, fin, serial, pure >>

\* request_api_deinitialize with no perform under way: request_destroy on
\* every Request of the stack.
MemDeinitialize ==
    /\ mem.run = "up"
    /\ \A t \in Threads : mem.held[t] = NULL
    /\ requestStackG' = [ i \in StackSlots |-> NULL ]
    /\ requestStackCountG' = 0 - 1
    /\ mem' = [ mem EXCEPT
                  !.run = "down",
                  !.R = [ r \in (DOMAIN @) \ Pooled |-> @[r] ],
                  !.badFree = @ \/ \E r \in Pooled :
                                      request_deinitialize(mem.R[r]).badFree,
                  !.failed = "none",
                  !.pushed = NULL ]
    /\ UNCHANGED << stackIndex, verifyPeer, req, context, pc, request, params,
                    obs, fin, serial, pure >>

\* request_api_initialize after it: the stack is empty again.
MemInitialize ==
    /\ mem.run = "down"
    /\ requestStackCountG' = 0
    /\ mem' = [ mem EXCEPT !.run = "up", !.pushed = NULL ]
    /\ UNCHANGED << requestStackG, stackIndex, verifyPeer, req, context, pc,
                    request, params, obs, fin, serial, pure >>

NextMem ==
    \/ \E t \in Threads, cfg \in ListConfigs :
           MemGet(t, cfg, "none")
    \/ \E t \in Threads, cfg \in ListConfigs, failAt \in GetFailures :
           MemGet(t, cfg, failAt)
    \/ \E t \in Threads : MemRelease(t)
    \/ MemDeinitialize
    \/ MemInitialize

SpecMem == InitMem /\ [][NextMem]_vars

\* ------------------------------------------------------------ properties

\* The performs that have returned to their caller or, for a perform on a
\* context, whose request_finish has run.
Ended == { "prepare", "get", "setopt", "addfail", "easy", "multi" }

\* C1: every request_perform call makes completeCallback exactly once
\* (before it returns when there is no context or the call fails before
\* registration, in request_finish when the Request was registered on a
\* context), and no toS3Callback, fromS3Callback or propertiesCallback of
\* the request is made after it.
C1_CompleteExactlyOnce ==
    /\ (fin.kind \in Ended) => (fin.seen.complete = 1) /\ ~fin.seen.late
    /\ (fin.kind = "registered") => (fin.seen.complete = 0)
    /\ \A r \in alive :
           /\ InFlight(r) => (obs[r].complete = 0) /\ ~obs[r].late
           /\ ~InFlight(r) => (obs[r] = NoObs)

\* A request registered on the context had its propertiesCallback and a
\* fromS3Callback made and was then completed by request_finish.
C1_Witness ==
    /\ fin.kind = "multi"
    /\ fin.seen.complete = 1
    /\ fin.seen.properties = 1
    /\ fin.seen.fromS3 = 1

\* The ordering rules of the callbacks of one perform.
InOrder(o) ==
    /\ o.properties <= 1
    /\ ~o.propsNon2xx
    /\ ~o.fromEarly
    /\ ~o.propsAfterFrom

\* C2: for one request, under any interleaving of the read, write and
\* header hooks followed by request_finish, propertiesCallback is made at
\* most once and only with a response code in 200..299, and every
\* fromS3Callback is made after the headers were done and after the
\* propertiesCallback, if there is one.
C2_PropertiesOnceBeforeData ==
    /\ \A r \in alive : InOrder(obs[r])
    /\ InOrder(fin.seen)

\* A perform without context that made propertiesCallback, then
\* fromS3Callback, and completed with OK.
C2_Witness ==
    /\ fin.kind = "easy"
    /\ fin.seen.properties = 1
    /\ fin.seen.fromS3 = 1
    /\ fin.seen.status = "OK"

\* C3: when toS3Callback returns a negative value the read hook tells the
\* HTTP client to abort, and completeCallback receives AbortedByCallback
\* whatever the response code and whatever propertiesCallback returns.
C3_NegativeReadAborts ==
    /\ \A r \in alive : obs[r].toAborted => (req[r].curlAborted = "read")
    /\ (fin.seen.toAborted /\ (fin.seen.complete = 1)) =>
           (fin.seen.status = "AbortedByCallback")

\* toS3Callback returned a negative value and completeCallback received OK.
C3_Witness ==
    /\ fin.seen.toAborted
    /\ fin.seen.complete = 1
    /\ fin.seen.status = "OK"

\* C4, as stated: when fromS3Callback returns a status other than OK the
\* status of the request becomes AbortedByCallback, the write hook reports
\* failure, and completeCallback receives AbortedByCallback.
C4_AbortedByFromS3 ==
    /\ \A r \in alive :
           (obs[r].fromReturned # "OK") =>
               /\ req[r].status = "AbortedByCallback"
               /\ obs[r].refused = 0
    /\ ((fin.seen.fromReturned # "OK") /\ (fin.seen.complete = 1)) =>
           (fin.seen.status = "AbortedByCallback")

\* C4, amended: when fromS3Callback returns a status other than OK the
\* status of the request becomes the status returned, the write hook
\* returns 0 to the HTTP client, and completeCallback receives the status
\* fromS3Callback returned.
C4_StatusOfFromS3 ==
    /\ \A r \in alive :
           (obs[r].fromReturned # "OK") =>
               /\ req[r].status = obs[r].fromReturned
               /\ obs[r].refused = 0
    /\ ((fin.seen.fromReturned # "OK") /\ (fin.seen.complete = 1)) =>
           /\ fin.seen.status = fin.seen.fromReturned
           /\ fin.seen.refused = 0

\* fromS3Callback returned InternalError and completeCallback received it.
C4_Witness ==
    /\ fin.seen.fromReturned = "InternalError"
    /\ fin.seen.complete = 1
    /\ fin.seen.status = "InternalError"

\* The accounting rules of the read hook, for one perform.
Accounted(o) ==
    /\ ~o.badMaxLen
    /\ ~o.toAtZero
    /\ o.sent <= o.total
    /\ (o.total = 0) => (o.toS3 = 0)

\* C5: toS3CallbackBytesRemaining stays within 0 .. totalSize, toS3Callback
\* is never offered more than the bytes remaining, the byte counts the read
\* hook returns never add up to more than totalSize, and toS3Callback is
\* not made when no byte remains (never for a total size of 0).
C5_BodyAccounting ==
    /\ \A r \in alive :
           /\ req[r].toS3CallbackBytesRemaining \in 0 .. obs[r].total
           /\ Accounted(obs[r])
    /\ Accounted(fin.seen)

\* A transfer whose read hook has handed over every byte of the largest
\* total size.
C5_Witness ==
    \E r \in alive :
        /\ InFlight(r)
        /\ obs[r].total = MaxTotalSize
        /\ obs[r].sent = MaxTotalSize
        /\ obs[r].toS3 = 1
        /\ req[r].toS3CallbackBytesRemaining = 0

\* C6: when request_perform fails in preparation (a step before
\* request_get, or inside request_get) completeCallback is made before the
\* call returns with the status of the failing step and null error
\* details, neither curl_easy_perform nor curl_multi_add_handle is called,
\* and no toS3Callback, fromS3Callback or propertiesCallback is made.
C6_PreparationFailure ==
    (fin.kind \in { "prepare", "get" }) =>
        /\ fin.failure # "OK"
        /\ fin.seen.complete = 1
        /\ fin.seen.status = fin.failure
        /\ fin.seen.details = "null"
        /\ ~fin.started
        /\ fin.seen.properties = 0
        /\ fin.seen.fromS3 = 0
        /\ fin.seen.toS3 = 0

\* request_get failed with UriTooLong and the call completed with it.
C6_Witness ==
    /\ fin.kind = "get"
    /\ fin.failure = "UriTooLong"
    /\ fin.seen.status = "UriTooLong"
    /\ fin.seen.details = "null"

\* C7: requestStackCountG is within 0 .. 32 in every reachable state, after
\* any sequence of request_api_initialize, request_perform and
\* request_api_deinitialize calls, and every index used to read or write
\* requestStackG is within 0 .. 31.
C7_CountAndIndexInRange ==
    /\ requestStackCountG \in 0 .. REQUEST_STACK_SIZE
    /\ stackIndex \subseteq StackSlots

\* A perform made after request_api_deinitialize read requestStackG at an
\* index below 0.
C7_Witness ==
    /\ requestStackCountG < 0
    /\ \E i \in stackIndex : i < 0
    /\ \E t \in Threads : pc[t] = "get"

\* The threads that hold a Request inside request_perform.
Holders(r) ==
    { t \in Threads : (pc[t] \in { "get", "easy" }) /\ (request[t] = r) }

\* C8: under any interleaving of request_perform calls from several
\* threads the pool holds no Request that is in flight, holds no Request
\* twice, and no Request is held by two threads at once (nor by a thread
\* while it is in the pool or on the context).
C8_PoolExclusive ==
    /\ \A i \in PoolSlots :
           /\ requestStackG[i] \in alive
           /\ ~InFlight(requestStackG[i])
           /\ Holders(requestStackG[i]) = { }
    /\ \A i, j \in PoolSlots :
           (i # j) => (requestStackG[i] # requestStackG[j])
    /\ \A r \in alive :
           /\ Cardinality(Holders(r)) <= 1
           /\ InMulti(r) => (Holders(r) = { })

\* Two threads popped a Request each from the full pool; one of them has
\* just released its Request while the other is still inside
\* curl_easy_perform with the Request it popped.
C8_Witness ==
    /\ requestStackCountG = REQUEST_STACK_SIZE - 1
    /\ fin.kind = "easy"
    /\ \E u \in Threads :
           /\ pc[u] = "easy"
           /\ request[u] \in alive \ Pooled

\* C9: every Request request_get hands to request_perform is released to
\* the pool, destroyed or registered on the context on every path out of
\* the call: no Request is left that is in no pool slot, held by no thread
\* and on no context.
C9_NoRequestLost == Lost = { }

\* request_perform returned after the SSL_VERIFYPEER override failed and
\* its Request is in no pool slot, held by no thread and on no context.
C9_Witness ==
    /\ fin.kind = "setopt"
    /\ fin.seen.complete = 1
    /\ Lost # { }

\* C10: in a serial run without context every perform after the first
\* obtains the Request the perform before it released, the 33rd included;
\* no Request is allocated after the first; the pool count never exceeds
\* 32.
C10_SerialReuse ==
    /\ ((serial.performs >= 2) /\ (pc[ContextThread] \in { "get", "easy" })) =>
           /\ serial.released # NULL
           /\ request[ContextThread] = serial.released
    /\ ((serial.performs >= 1) /\ (pc[ContextThread] = "idle")) =>
           /\ requestStackCountG >= 1
           /\ requestStackG[requestStackCountG - 1] = serial.released
    /\ Cardinality(alive) <= 1
    /\ requestStackCountG <= REQUEST_STACK_SIZE

\* The 33rd perform of a serial run holds the Request the 32nd released.
C10_Witness ==
    /\ serial.performs = REQUEST_STACK_SIZE + 1
    /\ pc[ContextThread] = "easy"
    /\ request[ContextThread] = serial.released
    /\ request[ContextThread] \in alive

\* The status the response code stands for at the end of a request that
\* met no other error.
StatusOfCode(code) ==
    IF (code >= 200) /\ (code <= 299) THEN "OK"
    ELSE IF code = 0 THEN "ConnectionFailed"
    ELSE IF code = 100 THEN "OK"
    ELSE IF code = 301 THEN "ErrorPermanentRedirect"
    ELSE IF code = 307 THEN "HttpErrorMovedTemporarily"
    ELSE IF code = 400 THEN "HttpErrorBadRequest"
    ELSE IF code = 403 THEN "HttpErrorForbidden"
    ELSE IF code = 404 THEN "HttpErrorNotFound"
    ELSE IF code = 405 THEN "ErrorMethodNotAllowed"
    ELSE IF code = 409 THEN "HttpErrorConflict"
    ELSE IF code = 411 THEN "ErrorMissingContentLength"
    ELSE IF code = 412 THEN "ErrorPreconditionFailed"
    ELSE IF code = 416 THEN "ErrorInvalidRange"
    ELSE IF code = 500 THEN "ErrorInternalError"
    ELSE IF code = 501 THEN "ErrorNotImplemented"
    ELSE IF code = 503 THEN "ErrorSlowDown"
    ELSE "HttpErrorUnknown"

\* The status request_finish handed to completeCallback, in an application
\* of request_finish.
Completed(a) == a.out.ev[Len(a.out.ev)].status

\* The Request of an application of request_finish once the header-done
\* transition has run.
HeadersDone(a) == request_headers_done(a.R, a.infoOK, a.code, a.pret).r

\* C11: when request_finish finds the status OK (the header-done
\* transition over) and no parsed error, completeCallback receives the
\* status the response code stands for: OK for 200..299 and for 100,
\* ConnectionFailed for 0, the status named for each of 301, 307, 400, 403,
\* 404, 405, 409, 411, 412, 416, 500, 501, 503, HttpErrorUnknown for any
\* other code; when it finds another status, completeCallback receives
\* that status whatever the code.
C11_StatusFromResponseCode ==
    (pure.fn = "request_finish") =>
        /\ ((HeadersDone(pure).status = "OK") /\ ~HeadersDone(pure).errorParsed) =>
               (Completed(pure) = StatusOfCode(HeadersDone(pure).httpResponseCode))
        /\ (HeadersDone(pure).status # "OK") =>
               (Completed(pure) = HeadersDone(pure).status)

\* request_finish met the response code 412 with status OK and no parsed
\* error, and completed with ErrorPreconditionFailed.
C11_Witness ==
    /\ pure.fn = "request_finish"
    /\ pure.R.status = "OK"
    /\ ~pure.R.errorParsed
    /\ HeadersDone(pure).httpResponseCode = 412
    /\ Completed(pure) = "ErrorPreconditionFailed"

\* The status a CURLcode stands for.
StatusOfCurlCode(code) ==
    IF code = "CURLE_OUT_OF_MEMORY" THEN "OutOfMemory"
    ELSE IF code = "CURLE_COULDNT_RESOLVE_HOST" THEN "NameLookupError"
    ELSE IF code = "CURLE_COULDNT_RESOLVE_PROXY" THEN "NameLookupError"
    ELSE IF code = "CURLE_COULDNT_CONNECT" THEN "FailedToConnect"
    ELSE IF code = "CURLE_WRITE_ERROR" THEN "ConnectionFailed"
    ELSE IF code = "CURLE_OPERATION_TIMEDOUT" THEN "ConnectionFailed"
    ELSE IF code = "CURLE_PARTIAL_FILE" THEN "OK"
    ELSE IF code = "CURLE_PEER_FAILED_VERIFICATION" THEN "ServerFailedVerification"
    ELSE "InternalError"

\* C12: request_curl_code_to_status maps out-of-memory to OutOfMemory, the
\* two could-not-resolve codes to NameLookupError, could-not-connect to
\* FailedToConnect, write-error and operation-timed-out to
\* ConnectionFailed, partial-file to OK, peer-failed-verification to
\* ServerFailedVerification and any other code to InternalError; after
\* curl_easy_perform the mapped status is stored only when the code is
\* not CURLE_OK and the status was still OK: a status set before is kept.
C12_TransportMapping ==
    (pure.fn = "curl_easy_perform") =>
        /\ pure.mapped = StatusOfCurlCode(pure.code)
        /\ (pure.R.status # "OK") => (pure.out.status = pure.R.status)
        /\ ((pure.R.status = "OK") /\ (pure.code # "CURLE_OK")) =>
               (pure.out.status = StatusOfCurlCode(pure.code))
        /\ (pure.code = "CURLE_OK") => (pure.out.status = pure.R.status)

\* The transfer of a request aborted by a callback ended with a write
\* error, and the status stayed AbortedByCallback.
C12_Witness ==
    /\ pure.fn = "curl_easy_perform"
    /\ pure.code = "CURLE_WRITE_ERROR"
    /\ pure.mapped = "ConnectionFailed"
    /\ pure.R.status = "AbortedByCallback"
    /\ pure.out.status = "AbortedByCallback"

\* C13: with a context whose verify-peer override is set, the
\* SSL_VERIFYPEER option on the handle equals the context's verifyPeer,
\* for each global verifyPeer and each context verifyPeer; without context
\* or without override it equals the global verifyPeer.
C13_VerifyPeerOverride ==
    (pure.fn = "CURLOPT_SSL_VERIFYPEER") =>
        (pure.out = IF pure.params.useContext /\ (pure.params.verifyPeerSet # 0)
                    THEN pure.params.verifyPeer
                    ELSE pure.global)

\* The global verifyPeer is 1, the context has its override set to 0, and
\* the handle verifies the peer.
C13_Witness ==
    /\ pure.fn = "CURLOPT_SSL_VERIFYPEER"
    /\ pure.global = 1
    /\ pure.params.useContext
    /\ pure.params.verifyPeerSet = 1
    /\ pure.params.verifyPeer = 0
    /\ pure.out = 1

\* The decimal text of a number of at most 31 bits.
RECURSIVE Decimal(_)
Decimal(n) ==
    IF n < 10 THEN << DigitChar[n + 1] >>
    ELSE Decimal(n \div 10) \o << DigitChar[(n % 10) + 1] >>

\* The number the expires argument stands for once limited to 0 .. 2^31-1.
ExpectedExpires(e) ==
    IF e[1] >= 32768 THEN 2147483647
    ELSE IF e[1] # 0 \/ e[2] # 0 \/ e[3] >= 32768 THEN 2147483647
    ELSE e[3] * 65536 + e[4]

\* C14: in S3_generate_authenticated_query_string the expires number
\* written into the string to sign and the one written into the Expires
\* query parameter are the same number, in 0 .. 2^31-1: 2^31-1 for a
\* negative argument and for one above 2^31-1, the argument itself
\* otherwise.
C14_ExpiresClamped ==
    (pure.fn = "S3_generate_authenticated_query_string") =>
        /\ pure.signbuf = Decimal(ExpectedExpires(pure.expires))
        /\ pure.queryParams = pure.signbuf
        /\ ExpectedExpires(pure.expires) \in 0 .. 2147483647

\* A negative argument and one above 2^31-1 on a build with a 32-bit long.
C14_Witness ==
    /\ pure.fn = "S3_generate_authenticated_query_string"
    /\ pure.bits = 32
    /\ pure.expires = << 0, 1, 32768, 1 >>
    /\ pure.signbuf = Decimal(2147483647)
    /\ pure.queryParams = Decimal(2147483647)

\* Whether propertiesCallback is among the callbacks made.
PropertiesMade(ev) == \E i \in DOMAIN ev : ev[i].cb = "properties"

FromS3Made(ev) == \E i \in DOMAIN ev : ev[i].cb = "fromS3"

\* The status of the Request of a write-hook call once the header-done
\* transition is over.
StatusAfterHeaders(a) ==
    IF a.R.propertiesCallbackMade THEN a.R.status
    ELSE IF ~a.infoOK THEN "InternalError"
    ELSE IF a.R.propertiesCallback /\ (a.code \in 200 .. 299) THEN a.pret
    ELSE a.R.status

\* Whether the error parser was handed the bytes of a write-hook call: the
\* Request carries the parser's status and what it parsed.
ParserFed(a) ==
    /\ a.out.r.status = a.est
    /\ a.out.r.errorParsed = a.parsed

\* Whether the error parser was left alone: nothing parsed, and the status
\* is not one only the parser returns.
ParserIdle(a) ==
    /\ ~a.out.r.errorParsed
    /\ a.out.r.status # "XmlParseFailure"

\* C16: a write-hook call that finds the status OK and leaves the
\* header-done transition with the status OK hands the bytes to
\* fromS3Callback and not to the error parser when the response code is in
\* 200..299 and there is a fromS3Callback; sets the status InternalError
\* and reports 0 bytes consumed when the code is in 200..299 and there is
\* no fromS3Callback; hands the bytes to the error parser and does not call
\* fromS3Callback when the code is outside 200..299.  A call that leaves
\* the header-done transition with a status other than OK reports 0 bytes
\* and calls neither.
C16_InboundRouting ==
    (pure.fn = "curl_write_func") =>
        /\ ((pure.R.status = "OK") /\ (StatusAfterHeaders(pure) = "OK")) =>
               /\ ((pure.code \in 200 .. 299) /\ pure.R.fromS3Callback) =>
                      /\ FromS3Made(pure.out.ev)
                      /\ ParserIdle(pure)
                      /\ pure.out.n = (IF pure.fret = "OK" THEN pure.len ELSE 0)
               /\ ((pure.code \in 200 .. 299) /\ ~pure.R.fromS3Callback) =>
                      /\ pure.out.r.status = "InternalError"
                      /\ pure.out.n = 0
                      /\ ~FromS3Made(pure.out.ev)
                      /\ ParserIdle(pure)
               /\ (pure.code \notin 200 .. 299) =>
                      /\ ParserFed(pure)
                      /\ ~FromS3Made(pure.out.ev)
        /\ (StatusAfterHeaders(pure) # "OK") =>
               /\ pure.out.n = 0
               /\ ~FromS3Made(pure.out.ev)
               /\ ParserIdle(pure)
               /\ pure.out.r.status = StatusAfterHeaders(pure)

\* A write-hook call with response code 404 and a fromS3Callback given:
\* the error parser took the bytes and parsed an error, fromS3Callback was
\* not called.
C16_Witness ==
    /\ pure.fn = "curl_write_func"
    /\ pure.R.status = "OK"
    /\ pure.R.fromS3Callback
    /\ pure.code = 404
    /\ pure.len > 0
    /\ pure.parsed
    /\ pure.out.r.errorParsed
    /\ pure.out.n = pure.len
    /\ pure.out.ev = << >>

\* The Requests of the pool in a memory run.
PooledLists == { mem.R[r] : r \in Pooled }

\* The Request request_release has just pushed has its lists freed and
\* null, its error parser and its handle reset.
C17_PushedIsReset ==
    ((mem.run = "up") /\ (mem.pushed # NULL)) =>
        /\ mem.R[mem.pushed].headers = "null"
        /\ mem.R[mem.pushed].connect_to_list = "null"
        /\ mem.R[mem.pushed].errorParser = "deinitialized"
        /\ mem.R[mem.pushed].curl = "reset"

\* C17: request_release pushes a Request as its perform left it: in the
\* pool it keeps its header list and Connect-To list (allocated or null,
\* never freed), its error parser initialized and the options on its
\* handle.  The reset is made by request_get when it pops the Request, and
\* before it sets the list pointers to null: no pointer to an allocated
\* list is overwritten, no list is freed twice, and a Request a perform
\* holds has lists of its own or none.
C17_ResetWhenPopped ==
    (mem.run # "none") =>
        /\ ~mem.overwritten
        /\ ~mem.badFree
        /\ \A L \in PooledLists :
               /\ L.headers \in { "null", "live" }
               /\ L.connect_to_list \in { "null", "live" }
               /\ L.errorParser = "initialized"
               /\ L.curl = "set"
        /\ \A t \in Threads :
               (mem.held[t] # NULL) =>
                   /\ mem.R[mem.held[t]].headers \in { "null", "live" }
                   /\ mem.R[mem.held[t]].connect_to_list \in { "null", "live" }
                   /\ mem.R[mem.held[t]].errorParser = "initialized"

\* Two performs have pushed their Requests: the one pushed last, on top,
\* still has its header list and Connect-To list allocated; the one below
\* was popped, reset and pushed again without lists.
C17_Witness ==
    /\ mem.run = "up"
    /\ requestStackCountG = 2
    /\ mem.pushed = requestStackG[1]
    /\ mem.R[requestStackG[1]].headers = "live"
    /\ mem.R[requestStackG[1]].connect_to_list = "live"
    /\ mem.R[requestStackG[1]].curl = "set"
    /\ mem.R[requestStackG[0]].headers = "null"
    /\ mem.R[requestStackG[0]].connect_to_list = "null"
    /\ \A t \in Threads : mem.held[t] = NULL

\* C18: every header list and Connect-To list setup_curl allocates is
\* freed exactly once: none is lost with its Request, none has its pointer
\* overwritten, none is freed twice, on every path (completion and reuse,
\* destruction with a full pool, request_api_deinitialize, a failure of
\* setup_curl after a list was allocated).
C18_ListsFreedOnce ==
    (mem.run # "none") =>
        /\ mem.lost = 0
        /\ ~mem.overwritten
        /\ ~mem.badFree

\* request_get failed in setup_curl after the headers: the Request was
\* freed with a Connect-To list and a header list allocated.
C18_Witness ==
    /\ mem.run = "up"
    /\ mem.failed = "late"
    /\ mem.lost = 2
    /\ \A t \in Threads : mem.held[t] = NULL

\* The pieces of a text between the separators sep.
Pieces(text, sep) ==
    { SubSeq(text, r[1], r[2]) :
        r \in { q \in (1 .. (Len(text) + 1)) \X (0 .. Len(text)) :
                  /\ q[1] <= q[2] + 1
                  /\ (q[1] = 1) \/ (text[q[1] - 1] = sep)
                  /\ (q[2] = Len(text)) \/ (text[q[2] + 1] = sep)
                  /\ \A i \in q[1] .. q[2] : text[i] # sep } }

\* The names in a signed-headers list, and the names that start the lines
\* of a canonical headers block.
SignedNames(signedHeaders) == Pieces(signedHeaders, ";")

BlockNames(buf) == { NameOf(line) : line \in Pieces(buf, "\n") }

\* Whether a header line is a Content-Length header.
IsContentLength(header) ==
    /\ LowerText(NameOf(header)) = ContentLengthName
    /\ CharAt(header, Len(ContentLengthName) + 1) = ":"

\* C20: canonicalize_headers skips a Content-Length header that is the
\* first entry of the header list: content-length is then neither among the
\* canonical headers nor among the signed headers; a Content-Length header
\* at any other position is kept in both.
C20_FirstContentLengthSkipped ==
    (pure.fn = "canonicalize_headers") =>
        /\ IsContentLength(pure.headers[1]) =>
               /\ ContentLengthName \notin SignedNames(pure.out.signedHeaders)
               /\ ContentLengthName \notin BlockNames(pure.out.buf)
        /\ (\E i \in 2 .. Len(pure.headers) : IsContentLength(pure.headers[i])) =>
               /\ ContentLengthName \in SignedNames(pure.out.signedHeaders)
               /\ ContentLengthName \in BlockNames(pure.out.buf)

\* The list of a PUT, "Content-Length: 5" first and the Host header after
\* it: content-length is the first of the signed headers.
C20_Witness ==
    /\ pure.fn = "canonicalize_headers"
    /\ pure.headers = << ContentLengthLine, HostLine >>
    /\ pure.out.signedHeaders = ContentLengthName \o << ";", "h", "o", "s", "t" >>
    /\ ContentLengthName \in BlockNames(pure.out.buf)

\* What a line of the header list is: the Authorization header, an x-amz-
\* line, or a standard header.
AuthorizationName ==
    << "a", "u", "t", "h", "o", "r", "i", "z", "a", "t", "i", "o", "n" >>

AmzPrefix == << "x", "-", "a", "m", "z", "-" >>

IsAuthorization(line) == LowerText(NameOf(line)) = AuthorizationName

IsAmz(line) ==
    /\ Len(line) >= Len(AmzPrefix)
    /\ LowerText(SubSeq(line, 1, Len(AmzPrefix))) = AmzPrefix

IsStandard(line) == ~IsAuthorization(line) /\ ~IsAmz(line)

NotEmpty(line) == line # << >>

\* What holds of the list under both orders: its standard headers are the
\* first header of the request type and the values that are not empty, in
\* the fixed order; its x-amz- lines are the generated ones in their order;
\* it has one Authorization header.
SameLines(a) ==
    /\ SelectSeq(a.headers, IsStandard)
           = (IF a.type = "PUT"
              THEN << ContentLengthStart \o << "5" >> >>
              ELSE IF a.type = "COPY" THEN << TransferEncodingLine >>
              ELSE << >>)
                 \o SelectSeq(a.values.standard, NotEmpty)
    /\ SelectSeq(a.headers, IsAmz) = a.values.amzHeaders
    /\ Len(SelectSeq(a.headers, IsAuthorization)) = 1

\* A line of one kind before a line of the other.
KindBefore(lines, First(_), Second(_)) ==
    \A i, j \in DOMAIN lines :
        (First(lines[i]) /\ Second(lines[j])) => (i < j)

\* The standard headers, then every x-amz- line, then the Authorization
\* header, under either signature version.
C19_AuthorizationAfterAmz ==
    (pure.fn = "setup_curl") =>
        /\ SameLines(pure)
        /\ KindBefore(pure.headers, IsStandard, IsAmz)
        /\ KindBefore(pure.headers, IsStandard, IsAuthorization)
        /\ KindBefore(pure.headers, IsAmz, IsAuthorization)
        /\ IsAuthorization(pure.headers[Len(pure.headers)])

\* C19: the header list starts with the standard headers that are not
\* empty, in their fixed order.  Under signature V2 the Authorization
\* header follows them and comes before every x-amz- line, the x-amz-
\* lines in generation order ending the list; under V4 the x-amz- lines
\* follow the standard headers and the Authorization header that
\* compose_auth4_header computes is the last element of the list.
C19_HeaderOrder ==
    (pure.fn = "setup_curl") =>
        /\ SameLines(pure)
        /\ KindBefore(pure.headers, IsStandard, IsAmz)
        /\ KindBefore(pure.headers, IsStandard, IsAuthorization)
        /\ (pure.version = "S3SignatureV2") =>
               /\ KindBefore(pure.headers, IsAuthorization, IsAmz)
               /\ IsAmz(pure.headers[Len(pure.headers)])
        /\ (pure.version = "S3SignatureV4") =>
               /\ KindBefore(pure.headers, IsAmz, IsAuthorization)
               /\ IsAuthorization(pure.headers[Len(pure.headers)])

\* A PUT under V2 with a Host header and two x-amz- lines: Content-Length,
\* Host, Authorization, then the x-amz- lines.
C19_Witness ==
    /\ pure.fn = "setup_curl"
    /\ pure.version = "S3SignatureV2"
    /\ pure.headers = << ContentLengthStart \o << "5" >>, HostLine,
                         AuthorizationV2Line, DateLine, MetaLine >>

\* The key a comparison looks at: the header name (without regard to case
\* for headerle_nocase), the name of the query parameter.
RECURSIVE UpTo(_, _)
UpTo(text, ends) ==
    IF (text = << >>) \/ (Head(text) \in ends) THEN << >>
    ELSE << Head(text) >> \o UpTo(Tail(text), ends)

KeyOf(less, entry) ==
    CASE less = "headerle" -> UpTo(entry, { ":" })
      [] less = "headerle_nocase" -> LowerText(UpTo(entry, { ":" }))
      [] OTHER -> UpTo(entry, { "=", "&" })

\* a <= b in the order of the bytes, a text before those it starts.
RECURSIVE TextLe(_, _)
TextLe(a, b) ==
    IF a = << >> THEN TRUE
    ELSE IF b = << >> THEN FALSE
    ELSE IF Head(a) # Head(b) THEN Ord(Head(a)) < Ord(Head(b))
    ELSE TextLe(Tail(a), Tail(b))

\* The place of an entry in a list of different entries.
PlaceIn(list, entry) == CHOOSE k \in DOMAIN list : list[k] = entry

\* C21: each sort returns a permutation of its input, ordered by the key
\* of its comparison, in which entries with equal keys keep the order they
\* had in the input.
C21_SortsStable ==
    (pure.fn = "gnome_sort") =>
        /\ Len(pure.out) = Len(pure.params)
        /\ { pure.out[i] : i \in DOMAIN pure.out }
               = { pure.params[i] : i \in DOMAIN pure.params }
        /\ \A i, j \in DOMAIN pure.out :
               (i < j) =>
                   /\ TextLe(KeyOf(pure.less, pure.out[i]),
                             KeyOf(pure.less, pure.out[j]))
                   /\ (KeyOf(pure.less, pure.out[i]) = KeyOf(pure.less, pure.out[j]))
                          => (PlaceIn(pure.params, pure.out[i])
                                  < PlaceIn(pure.params, pure.out[j]))

\* header_gnome_sort on three x-amz- lines, two of them with the name
\* x-amz-meta-a: the two come out in the opposite order.
C21_Witness ==
    /\ pure.fn = "gnome_sort"
    /\ pure.less = "headerle"
    /\ pure.params = << MetaFirstLine, DateLine, MetaLastLine >>
    /\ pure.out = << DateLine, MetaLastLine, MetaFirstLine >>

\* C22: the canonical x-amz- block does not depend on the order in which
\* the lines are given, also when a name occurs more than once with
\* different values.
C22_OrderIndependent ==
    (pure.fn = "canonicalize_amz_headers") => (pure.out = pure.outOther)

\* The same metadata name with the values 1 and 2, given in the two orders:
\* the merged line is "2,1" for one and "1,2" for the other.
C22_Witness ==
    /\ pure.fn = "canonicalize_amz_headers"
    /\ pure.lines = << MetaFirstLine, MetaLastLine >>
    /\ pure.other = << MetaLastLine, MetaFirstLine >>
    /\ pure.out.buffer = NameOf(MetaFirstLine) \o << ":", "2", ",", "1", "\n" >>
    /\ pure.outOther.buffer = NameOf(MetaFirstLine) \o << ":", "1", ",", "2", "\n" >>

\* The value of a query parameter: what follows its '=', nothing when it
\* has none.
RECURSIVE ValueOf(_)
ValueOf(param) ==
    IF param = << >> THEN << >>
    ELSE IF Head(param) = "=" THEN Tail(param)
    ELSE ValueOf(Tail(param))

\* name=value of each parameter, joined by '&'.
RECURSIVE JoinNameValue(_)
JoinNameValue(ps) ==
    IF ps = << >> THEN << >>
    ELSE KeyOf("paramle", Head(ps)) \o << "=" >> \o ValueOf(Head(ps))
             \o (IF Len(ps) = 1 THEN << >> ELSE << "&" >>)
             \o JoinNameValue(Tail(ps))

ByNameThenValue(ps) ==
    \A i, j \in DOMAIN ps :
        (i < j) =>
            /\ TextLe(KeyOf("paramle", ps[i]), KeyOf("paramle", ps[j]))
            /\ (KeyOf("paramle", ps[i]) = KeyOf("paramle", ps[j]))
                   => TextLe(ValueOf(ps[i]), ValueOf(ps[j]))

\* C23: the canonical query string is the parameters in the order of their
\* names and, among equal names, of their values, each as name=value,
\* joined by '&' and followed by a newline.
C23_SortedByNameThenValue ==
    (pure.fn = "canonicalize_query_params" /\ pure.out.status = "S3StatusOK") =>
        \E order \in ListsOf(QueryParams) :
            /\ Len(order) = Len(pure.params)
            /\ { order[k] : k \in DOMAIN order }
                   = { pure.params[k] : k \in DOMAIN pure.params }
            /\ ByNameThenValue(order)
            /\ pure.out.buf = Append(JoinNameValue(order), "\n")

\* a=1&a=0 is emitted as it was given, the larger value first.
C23_Witness ==
    /\ pure.fn = "canonicalize_query_params"
    /\ pure.params = << << "a", "=", "1" >>, << "a", "=", "0" >> >>
    /\ pure.out.status = "S3StatusOK"
    /\ pure.out.buf = << "a", "=", "1", "&", "a", "=", "0", "\n" >>

\* The line an entry of amzHeaders points at: the characters from there to
\* the terminator.
RECURSIVE LineFrom(_, _)
LineFrom(raw, at) ==
    IF (at > Len(raw)) \/ (raw[at] = Nul) THEN << >>
    ELSE << raw[at] >> \o LineFrom(raw, at + 1)

Composed ==
    /\ pure.fn = "compose_amz_headers"
    /\ pure.defined
    /\ pure.status = "S3StatusOK"

\* C24: when compose_amz_headers returns OK, every line ends with its
\* terminator and not with whitespace, has a name without capitals that is
\* followed by ": ", and the pointers of amzHeaders are in the order the
\* lines were generated.
C24_LinesNormalized ==
    Composed =>
        \A k \in DOMAIN pure.amzHeaders :
            LET line == LineFrom(pure.amzHeadersRaw, pure.amzHeaders[k])
                name == NameOf(line)
            IN  /\ line # << >>
                /\ ~is_blank(line[Len(line)])
                /\ pure.amzHeaders[k] + Len(line) <= Len(pure.amzHeadersRaw)
                /\ \A i \in DOMAIN name : name[i] \notin UpperCase
                /\ CharAt(line, Len(name) + 1) = ":"
                /\ CharAt(line, Len(name) + 2) = " "
                /\ (k > 1) => (pure.amzHeaders[k - 1] < pure.amzHeaders[k])

\* One metadata entry with an empty value: its line is the name and the
\* colon, without the space.
C24_Witness ==
    /\ Composed
    /\ pure.params.putProperties # NullPointer
    /\ pure.params.putProperties[1].metaData
           = << [ name |-> << "c" >>, value |-> << >> ] >>
    /\ LineFrom(pure.amzHeadersRaw, pure.amzHeaders[1])
           = S3_METADATA_HEADER_NAME_PREFIX \o << "c", ":" >>

\* C30: with at most S3_MAX_METADATA_COUNT metadata entries and any of the
\* generated headers, the number of pointers stored in amzHeaders is at
\* most the size of that array, and the number canonicalize_amz_headers
\* copies into sortedHeaders is at most the size of that one.
C30_IndexWithinArrays ==
    (pure.fn = "compose_amz_headers") =>
        /\ pure.amzHeadersCount <= AmzHeadersCapacity
        /\ pure.copied <= SortedHeadersCapacity

\* Signature V2, S3_MAX_METADATA_COUNT metadata entries, a canned ACL and
\* server-side encryption: with the date that is three pointers more than
\* sortedHeaders holds and one more than amzHeaders holds.
C30_Witness ==
    /\ pure.fn = "compose_amz_headers"
    /\ pure.status = "S3StatusOK"
    /\ pure.params.signatureVersionG = "S3SignatureV2"
    /\ pure.params.putProperties # NullPointer
    /\ Len(pure.params.putProperties[1].metaData) = S3_MAX_METADATA_COUNT
    /\ pure.amzHeadersCount = S3_MAX_METADATA_COUNT + 3
    /\ pure.copied = pure.amzHeadersCount

\* A name of a certificate stands for the host: it has no embedded NUL and
\* is the host name without regard to case, or, where wildcards count, is
\* "*" followed by the host name from its first dot on.
RECURSIVE FromFirstDot(_)
FromFirstDot(str) ==
    IF str = << >> THEN << >>
    ELSE IF Head(str) = "." THEN str
    ELSE FromFirstDot(Tail(str))

NameStandsFor(data, host, wildcards) ==
    /\ \A i \in DOMAIN data : data[i] # Nul
    /\ \/ LowerText(data) = LowerText(host)
       \/ /\ wildcards
          /\ Len(data) > 2
          /\ data[1] = "*"
          /\ FromFirstDot(host) # << >>
          /\ LowerText(Tail(data)) = LowerText(FromFirstDot(host))

SanMatches ==
    /\ pure.peer_cert.san_names # NullPointer
    /\ \E i \in DOMAIN pure.peer_cert.san_names[1] :
           /\ pure.peer_cert.san_names[1][i].type = "GEN_DNS"
           /\ NameStandsFor(pure.peer_cert.san_names[1][i].data, pure.host, TRUE)

CommonNameMatches ==
    /\ pure.peer_cert.common_name # NullPointer
    /\ NameStandsFor(pure.peer_cert.common_name[1], pure.host, FALSE)

Accepted == pure.out.ret = 1 /\ pure.out.error = "X509_V_OK"

Rejected ==
    pure.out.ret = 0 /\ pure.out.error = "X509_V_ERR_APPLICATION_VERIFICATION"

\* Apart from the leaf, and after a failed pre-verification, the callback
\* returns preverify_ok and sets no error.
PassedThrough ==
    ((pure.preverify_ok = 0) \/ (pure.depth # 0))
        => (pure.out.ret = pure.preverify_ok /\ pure.out.error = "unchanged")

\* C25 as stated: a pre-verified leaf is accepted when a DNS name of the
\* SAN extension or, no such name matching, the CN stands for the host,
\* and is rejected only when neither does.
C25_FallsBackWheneverNoSanMatched ==
    (pure.fn = "ssl_verify_callback") =>
        /\ PassedThrough
        /\ (pure.preverify_ok = 1 /\ pure.depth = 0)
               => IF SanMatches \/ CommonNameMatches THEN Accepted ELSE Rejected

\* C25: a pre-verified leaf is accepted when a DNS name of its SAN
\* extension stands for the host or, the certificate having no SAN
\* extension, its CN does; any other leaf is rejected with the
\* application-verification error.  The CN of a certificate that has a SAN
\* extension is not looked at.
C25_FallsBackWithoutSan ==
    (pure.fn = "ssl_verify_callback") =>
        /\ PassedThrough
        /\ (pure.preverify_ok = 1 /\ pure.depth = 0)
               => IF \/ SanMatches
                     \/ (pure.peer_cert.san_names = NullPointer
                             /\ CommonNameMatches)
                  THEN Accepted
                  ELSE Rejected

\* A leaf with a SAN extension that names another host and a CN that is
\* the host: rejected.
C25_Witness ==
    /\ pure.fn = "ssl_verify_callback"
    /\ pure.preverify_ok = 1
    /\ pure.depth = 0
    /\ pure.peer_cert.san_names # NullPointer
    /\ ~SanMatches
    /\ CommonNameMatches
    /\ Rejected

\* The scheme of a composed URI with its "://", and what follows it up to
\* the first '/': the authority.
SchemeOf(uri) == UpTo(uri, { ":" }) \o << ":", "/", "/" >>

AfterScheme(uri) == SubSeq(uri, Len(SchemeOf(uri)) + 1, Len(uri))

AuthorityOf(uri) == UpTo(AfterScheme(uri), { "/" })

StartsWith(text, start) ==
    (Len(start) <= Len(text)) /\ (SubSeq(text, 1, Len(start)) = start)

UriHost == IF pure.bucketContext.hostName = NullPointer THEN defaultHostNameG
           ELSE pure.bucketContext.hostName[1]

UriBucket == IF pure.bucketContext.bucketName = NullPointer THEN << >>
             ELSE pure.bucketContext.bucketName[1]

\* C26: a composed URI has the authority bucket.host for a bucket without
\* '.' in a virtual host, the host alone for a bucket with '.' in a virtual
\* host and for no bucket, and starts scheme://host/bucket/ for a bucket in
\* path style; compose_uri returns OK or UriTooLong and in either case has
\* written, terminator included, at most bufferSize bytes.
C26_AuthorityAndBuffer ==
    (pure.fn = "compose_uri") =>
        /\ pure.out.status \in { "S3StatusOK", "S3StatusUriTooLong" }
        /\ Len(pure.out.buffer) + 1 <= pure.bufferSize
        /\ (pure.out.status = "S3StatusOK") =>
               /\ pure.out.len = Len(pure.out.buffer)
               /\ SchemeOf(pure.out.buffer)
                      \in { << "h", "t", "t", "p", ":", "/", "/" >>,
                            << "h", "t", "t", "p", "s", ":", "/", "/" >> }
               /\ AuthorityOf(pure.out.buffer) =
                      IF /\ UriBucket # << >>
                         /\ pure.bucketContext.uriStyle = "S3UriStyleVirtualHost"
                         /\ "." \notin { UriBucket[i] : i \in DOMAIN UriBucket }
                      THEN UriBucket \o << "." >> \o UriHost
                      ELSE UriHost
               /\ (UriBucket # << >>
                       /\ pure.bucketContext.uriStyle = "S3UriStylePath")
                      => StartsWith(AfterScheme(pure.out.buffer),
                                    UriHost \o << "/" >> \o UriBucket \o << "/" >>)

\* The bucket b.c in a virtual host: the URI is https://h/k.
C26_Witness ==
    /\ pure.fn = "compose_uri"
    /\ pure.out.status = "S3StatusOK"
    /\ pure.bucketContext.uriStyle = "S3UriStyleVirtualHost"
    /\ UriBucket = << "b", ".", "c" >>
    /\ pure.out.buffer
           = << "h", "t", "t", "p", "s", ":", "/", "/", "h", "/", "k" >>

\* The status completeCallback received at the end of the perform.
CompleteStatus == pure.out.ev[Len(pure.out.ev)].status

\* C27: when curl_easy_perform returns an error other than partial-file
\* the status handed to completeCallback is not OK, and a status that is
\* not OK when request_finish starts is not OK when completeCallback is
\* made.
C27_FailureNotReportedOK ==
    (pure.fn = "request_perform") =>
        /\ (pure.curl \notin { "CURLE_OK", "CURLE_PARTIAL_FILE" })
               => (CompleteStatus # "OK")
        /\ (pure.mapped # "OK") => (CompleteStatus # "OK")

\* A receive error after the headers of a 200 reply and before any body
\* byte, a propertiesCallback that returns OK: completeCallback gets OK.
C27_Witness ==
    /\ pure.fn = "request_perform"
    /\ pure.curl = "CURLE_RECV_ERROR"
    /\ pure.R.status = "OK"
    /\ ~pure.R.propertiesCallbackMade
    /\ pure.mapped = "InternalError"
    /\ pure.code = 200
    /\ pure.out.ev = << EvProperties(200), EvComplete("OK", "errorDetails") >>

\* A step makes no toS3Callback, fromS3Callback or propertiesCallback for a
\* Request in flight whose status is not OK: its counts of those callbacks
\* are after the step what they were, be it still in flight or finished by
\* the step.
QuietOnceFailed ==
    \A r \in alive :
        (InFlight(r) /\ (req[r].status # "OK")) =>
            LET after == IF (r \in DOMAIN obs') /\ InFlight(r)'
                         THEN obs'[r]
                         ELSE fin'.seen
            IN  /\ after.properties = obs[r].properties
                /\ after.toS3 = obs[r].toS3
                /\ after.fromS3 = obs[r].fromS3

\* C28: once the status of a request is not OK, no toS3Callback,
\* fromS3Callback or propertiesCallback is made for it any more; the
\* completeCallback alone follows.
C28_NoCallbackOnceFailed == [][QuietOnceFailed]_vars

\* A perform without context whose toS3Callback returned a negative value
\* and whose write hook made no callback: its propertiesCallback was made
\* by request_finish, after the abort.
C28_Witness ==
    /\ fin.kind = "easy"
    /\ fin.seen.toAborted
    /\ fin.seen.fromS3 = 0
    /\ fin.seen.properties = 1
    /\ fin.seen.complete = 1

\* context->requests followed through next from Request r until it is back
\* at the head, for at most n Requests.
RECURSIVE NextsFrom(_, _, _, _)
NextsFrom(R, head, r, n) ==
    IF (n = 0) \/ (r \notin DOMAIN R) THEN << >>
    ELSE << r >> \o (IF R[r].next = head THEN << >>
                     ELSE NextsFrom(R, head, R[r].next, n - 1))

RequestsOf(R, head) ==
    IF head = NULL THEN << >>
    ELSE NextsFrom(R, head, head, Cardinality(DOMAIN R))

Without(seq, i) == SubSeq(seq, 1, i - 1) \o SubSeq(seq, i + 1, Len(seq))

\* The list holds the Requests on the multi handle, each once, and prev
\* and next are each other's inverse on them.
ContextListWellFormed ==
    LET list == RequestsOf(req, context.requests)
    IN  /\ { list[i] : i \in DOMAIN list } = context.curlm
        /\ Len(list) = Cardinality(context.curlm)
        /\ \A r \in context.curlm :
               /\ req[r].next \in context.curlm
               /\ req[r].prev \in context.curlm
               /\ req[req[r].next].prev = r
               /\ req[req[r].prev].next = r

\* A request_perform whose curl_multi_add_handle failed has made its one
\* completeCallback with the status of the failure, OutOfMemory or
\* InternalError.
FailedAddFinished ==
    (fin.kind = "addfail") =>
        /\ fin.failure \in { "OutOfMemory", "InternalError" }
        /\ fin.seen.complete = 1
        /\ fin.seen.status = fin.failure

\* Its Request is the one on top of the pool, on no list.
FailedAddPooled ==
    /\ requestStackCountG > 0
    /\ stackIndex = { requestStackCountG - 1 }
    /\ requestStackG[requestStackCountG - 1] \in alive \ context.curlm

\* Its Request was destroyed, the pool being full: no slot was written and
\* no Request is left without an owner.
FailedAddDestroyed ==
    /\ requestStackCountG = REQUEST_STACK_SIZE
    /\ stackIndex = { }
    /\ Lost = { }

\* A step leaves the list as it is, or registers a Request and puts it
\* last, or finishes a transfer and takes its Request out, the others
\* staying in their order; a failed registration leaves it as it is.
ContextListStep ==
    LET before == RequestsOf(req, context.requests)
        after == RequestsOf(req', context'.requests)
    IN  /\ \/ after = before
           \/ /\ fin'.kind = "registered"
              /\ \E r \in alive' : /\ r \notin context.curlm
                                   /\ after = Append(before, r)
           \/ /\ fin'.kind = "multi"
              /\ \E i \in DOMAIN before : after = Without(before, i)
        /\ (fin'.kind = "addfail") => (after = before)

\* C29 as stated: context->requests is a circular doubly-linked list of
\* exactly the Requests whose curl_multi_add_handle succeeded and whose
\* transfer is not finished, each once, in the order of their
\* registration; a Request whose curl_multi_add_handle failed is not
\* linked, is finished at once with OutOfMemory or InternalError and is
\* returned to the pool.
C29_FailedAddPooled ==
    /\ [](/\ ContextListWellFormed
          /\ FailedAddFinished
          /\ (fin.kind = "addfail") => FailedAddPooled)
    /\ [][ContextListStep]_vars

\* C29: the list is as stated, and a Request whose curl_multi_add_handle
\* failed is not linked, is finished at once with OutOfMemory or
\* InternalError and is released: returned to the pool, or destroyed when
\* the pool is full.
C29_ContextList ==
    /\ [](/\ ContextListWellFormed
          /\ FailedAddFinished
          /\ (fin.kind = "addfail") => (FailedAddPooled \/ FailedAddDestroyed))
    /\ [][ContextListStep]_vars

\* A registration that has just failed with the out-of-memory code while
\* the pool was full: the Request was destroyed.
C29_Witness ==
    /\ fin.kind = "addfail"
    /\ fin.failure = "OutOfMemory"
    /\ fin.seen.status = "OutOfMemory"
    /\ FailedAddDestroyed

====
